---- MODULE Spec2Model ----
(***************************************************************************)
(* Model of the log-query "stats" pipe of lib/logstorage:                  *)
(*   - pipes.go: the stats pipe processor (sharded group map, writeBlock, *)
(*     flush), its count and uniq processors over BlockColumn values, and  *)
(*     the head / skip processors;                                         *)
(*   - stats_count.go, stats_uniq.go: the count and uniq processors over   *)
(*     blockResult columns (const, time, dict and typed columns).          *)
(* Byte strings are sequences of naturals below 256; "" is << >>.          *)
(***************************************************************************)
EXTENDS Integers, Sequences, FiniteSets, TLC

\* ---------------------------------------------------------------- bounds

\* the largest number of rows of an input block
MaxRows == 1
\* the largest number of writeBlock / update calls of one run
MaxWrites == 2

\* mergeState calls on processors taken on their own, after the updates
MaxMerges == 1

\* rows of a block in which runs of equal rows occur
MaxRunRows == 3

\* blocks with runs given to a processor
MaxRunBlocks == 1
\* the worker counts the stats pipe processor is created with
WorkerCounts == { 1, 2 }

\* ------------------------------------------------------------ byte strings

Empty == << >>

\* the values a cell of an input block can hold
Vals == { << >>, <<1>> }

\* bytesutil.ToUnsafeBytes of a field name
NameBytes(name) ==
    CASE name = "a" -> <<97>>
      [] name = "b" -> <<98>>
      [] name = "*" -> <<42>>
      [] OTHER -> <<63>>

RECURSIVE MarshalVarUint64(_, _)
\* encoding.MarshalVarUint64: 7 bits per byte, low bits first, 0x80 = more
MarshalVarUint64(dst, u) ==
    IF u < 128 THEN Append(dst, u)
    ELSE MarshalVarUint64(Append(dst, 128 + (u % 128)), u \div 128)

\* encoding.MarshalBytes: varint length, then the bytes
MarshalBytes(dst, b) == MarshalVarUint64(dst, Len(b)) \o b

RECURSIVE UnmarshalVarUint64At(_, _, _, _)
\* decodes the varint starting at src[i]; n = 0 when src ends inside it
UnmarshalVarUint64At(src, i, shift, acc) ==
    IF i > Len(src) THEN [u |-> 0, n |-> 0]
    ELSE IF src[i] < 128 THEN [u |-> acc + src[i] * shift, n |-> i]
    ELSE UnmarshalVarUint64At(src, i + 1, shift * 128, acc + (src[i] - 128) * shift)

\* encoding.UnmarshalBytes: (tail, value, err)
UnmarshalBytes(src) ==
    LET r == UnmarshalVarUint64At(src, 1, 1, 0) IN
    IF r.n = 0 THEN [tail |-> src, v |-> Empty, err |-> TRUE]
    ELSE IF Len(src) - r.n < r.u THEN [tail |-> src, v |-> Empty, err |-> TRUE]
    ELSE [tail |-> SubSeq(src, r.n + r.u + 1, Len(src)),
          v |-> SubSeq(src, r.n + 1, r.n + r.u),
          err |-> FALSE]

RECURSIVE FormatUint(_)
\* strconv.FormatUint(n, 10): the ASCII decimal digits of n
FormatUint(n) ==
    IF n < 10 THEN <<48 + n>>
    ELSE Append(FormatUint(n \div 10), 48 + (n % 10))

\* slices.Contains
Contains(s, x) == \E i \in 1..Len(s) : s[i] = x

\* ------------------------------------------------- blocks of BlockColumn

\* index (from 0) of the column named f, -1 when the block has none
getBlockColumnIndex(columns, f) ==
    IF \E i \in 1..Len(columns) : columns[i].Name = f
    THEN (CHOOSE i \in 1..Len(columns) :
             /\ columns[i].Name = f
             /\ \A j \in 1..(i - 1) : columns[j].Name # f) - 1
    ELSE -1

\* column indexes of the fields that have a column, the others left out
appendBlockColumnIndexes_presentOnly(dst, columns, fields) ==
    dst \o SelectSeq([k \in 1..Len(fields) |-> getBlockColumnIndex(columns, fields[k])],
                     LAMBDA idx : idx >= 0)

\* appendBlockColumnIndexes(dst[:0], columns, fields)
appendBlockColumnIndexes(dst, columns, fields) ==
    dst \o [k \in 1..Len(fields) |-> getBlockColumnIndex(columns, fields[k])]

\* fields with "*" removed
RECURSIVE getFieldsIgnoreStar(_)
getFieldsIgnoreStar(fields) ==
    IF fields = << >> THEN << >>
    ELSE IF Head(fields) # "*"
         THEN <<Head(fields)>> \o getFieldsIgnoreStar(Tail(fields))
         ELSE getFieldsIgnoreStar(Tail(fields))

\* ------------------------------------------------------- filter bitmap

\* getFilterBitmap(n) followed by setBits(): the rows 0..n-1 as set bits
setBits(n) == 1..n

\* bitmap.forEachSetBit(f): a set bit stays set only where f returns true;
\* kept holds the bits for which f returns true
forEachSetBit(bm, kept) == bm \cap kept

\* --------------------------------------- pipes.go: count over BlockColumn

\* statsFuncCount.newStatsFuncProcessor
sfc_newStatsFuncProcessor(sfc) ==
    [kind |-> "count", sf |-> sfc, rowsCount |-> 0]

\* statsFuncCountProcessor.updateStatsForAllRows
sfcp_updateStatsForAllRows(sfcp, timestamps, columns) ==
    LET fields == sfcp.sf.fields
        n == Len(timestamps)
    IN
    IF Len(fields) = 0 \/ Contains(fields, "*")
    THEN [sfcp EXCEPT !.rowsCount = @ + n]
    ELSE
      LET RECURSIVE Filter(_, _)
          Filter(bm, k) ==
              IF k > Len(fields) THEN bm
              ELSE LET idx == getBlockColumnIndex(columns, fields[k]) IN
                   IF idx >= 0
                   THEN LET values == columns[idx + 1].Values
                            IsEmpty == { i \in 1..n : values[i] = Empty }
                        IN Filter(forEachSetBit(bm, IsEmpty), k + 1)
                   ELSE Filter(bm, k + 1)
          emptyValues == Cardinality(Filter(setBits(n), 1))
      IN [sfcp EXCEPT !.rowsCount = @ + (n - emptyValues)]

\* statsFuncCountProcessor.updateStatsForRow
sfcp_updateStatsForRow(sfcp, timestamps, columns, rowIdx) ==
    LET fields == sfcp.sf.fields IN
    IF Len(fields) = 0 \/ Contains(fields, "*")
    THEN [sfcp EXCEPT !.rowsCount = @ + 1]
    ELSE IF \E k \in 1..Len(fields) :
              LET idx == getBlockColumnIndex(columns, fields[k]) IN
              idx >= 0 /\ columns[idx + 1].Values[rowIdx] # Empty
         THEN [sfcp EXCEPT !.rowsCount = @ + 1]
         ELSE sfcp

\* statsFuncCountProcessor.mergeState: [dst, src] after the call
sfcp_mergeState(sfcp, src) ==
    [dst |-> [sfcp EXCEPT !.rowsCount = @ + src.rowsCount], src |-> src]

\* statsFuncCountProcessor.finalizeStats
sfcp_finalizeStats(sfcp) ==
    [name |-> sfcp.sf.resultName, value |-> FormatUint(sfcp.rowsCount)]

\* ---------------------------------------- pipes.go: uniq over BlockColumn

\* statsFuncUniq.newStatsFuncProcessor
sfu_newStatsFuncProcessor(sfu) ==
    [kind |-> "uniq", sf |-> sfu, m |-> {}, columnIdxs |-> << >>, keyBuf |-> << >>]

\* the row-wise key buffer of the multi-column path starts from sfup.keyBuf
sfup_rowKeyBufStart(sfup) == sfup.keyBuf

\* statsFuncUniqProcessor.updateStatsForAllRows
sfup_updateStatsForAllRows(sfup, timestamps, columns) ==
    LET fields == sfup.sf.fields IN
    IF Len(fields) = 1
    THEN LET idx == getBlockColumnIndex(columns, fields[1]) IN
         IF idx >= 0
         THEN LET values == columns[idx + 1].Values IN
              [sfup EXCEPT !.m = @ \cup { values[i] : i \in { j \in 1..Len(values) : values[j] # Empty } }]
         ELSE sfup
    ELSE
      LET columnIdxs == appendBlockColumnIndexes(<< >>, columns, fields)
          Value(k, i) == IF columnIdxs[k] >= 0
                         THEN columns[columnIdxs[k] + 1].Values[i]
                         ELSE Empty
          RECURSIVE Key(_, _, _)
          Key(keyBuf, k, i) ==
              IF k > Len(columnIdxs) THEN keyBuf
              ELSE Key(MarshalBytes(keyBuf, Value(k, i)), k + 1, i)
          RECURSIVE Rows(_, _)
          Rows(p, i) ==
              IF i > Len(timestamps) THEN p
              ELSE LET allEmptyValues == \A k \in 1..Len(columnIdxs) : Value(k, i) = Empty
                       keyBuf == Key(<< >>, 1, i)
                   IN Rows([p EXCEPT !.keyBuf = keyBuf,
                                     !.m = IF allEmptyValues THEN @ ELSE @ \cup {keyBuf}],
                           i + 1)
      IN Rows([sfup EXCEPT !.columnIdxs = columnIdxs], 1)

\* statsFuncUniqProcessor.updateStatsForRow
sfup_updateStatsForRow(sfup, timestamps, columns, rowIdx) ==
    LET fields == sfup.sf.fields IN
    IF Len(fields) = 1
    THEN LET idx == getBlockColumnIndex(columns, fields[1]) IN
         IF idx >= 0
         THEN LET v == columns[idx + 1].Values[rowIdx] IN
              IF v = Empty THEN sfup ELSE [sfup EXCEPT !.m = @ \cup {v}]
         ELSE sfup
    ELSE
      LET Value(k) == LET idx == getBlockColumnIndex(columns, fields[k]) IN
                      IF idx >= 0 THEN columns[idx + 1].Values[rowIdx] ELSE Empty
          RECURSIVE Key(_, _)
          Key(keyBuf, k) ==
              IF k > Len(fields) THEN keyBuf
              ELSE Key(MarshalBytes(keyBuf, Value(k)), k + 1)
          allEmptyValues == \A k \in 1..Len(fields) : Value(k) = Empty
          keyBuf == Key(sfup_rowKeyBufStart(sfup), 1)
      IN [sfup EXCEPT !.keyBuf = keyBuf,
                      !.m = IF allEmptyValues THEN @ ELSE @ \cup {keyBuf}]

\* statsFuncUniqProcessor.mergeState: [dst, src] after the call
sfup_mergeState(sfup, src) ==
    [dst |-> [sfup EXCEPT !.m = @ \cup src.m], src |-> src]

\* statsFuncUniqProcessor.finalizeStats
sfup_finalizeStats(sfup) ==
    [name |-> sfup.sf.resultName, value |-> FormatUint(Cardinality(sfup.m))]

\* ------------------------------------- statsFuncProcessor interface calls

newStatsFuncProcessor(f) ==
    IF f.name = "count" THEN sfc_newStatsFuncProcessor(f) ELSE sfu_newStatsFuncProcessor(f)

updateStatsForAllRows(sfp, timestamps, columns) ==
    IF sfp.kind = "count" THEN sfcp_updateStatsForAllRows(sfp, timestamps, columns)
    ELSE sfup_updateStatsForAllRows(sfp, timestamps, columns)

updateStatsForRow(sfp, timestamps, columns, rowIdx) ==
    IF sfp.kind = "count" THEN sfcp_updateStatsForRow(sfp, timestamps, columns, rowIdx)
    ELSE sfup_updateStatsForRow(sfp, timestamps, columns, rowIdx)

\* sfp.mergeState(src); the type assertion src.(*T) fails on another variant
mergeState(sfp, src) ==
    IF sfp.kind = "count" THEN sfcp_mergeState(sfp, src) ELSE sfup_mergeState(sfp, src)

finalizeStats(sfp) ==
    IF sfp.kind = "count" THEN sfcp_finalizeStats(sfp) ELSE sfup_finalizeStats(sfp)

\* --------------------------------------------- pipes.go: stats processor

\* a downstream call made by a processor: ppBase.writeBlock, cancel, ppBase.flush
WriteBlockCall(workerID, timestamps, columns) ==
    [op |-> "writeBlock", workerID |-> workerID, timestamps |-> timestamps, columns |-> columns]

CancelCall == [op |-> "cancel", workerID |-> 0, timestamps |-> << >>, columns |-> << >>]

FlushCall == [op |-> "flush", workerID |-> 0, timestamps |-> << >>, columns |-> << >>]

\* statsPipe.newPipeProcessor: workersCount shards with empty maps
sp_newPipeProcessor(workersCount) ==
    [shards |-> [i \in 1..workersCount |->
                    [m |-> << >>, columnIdxs |-> << >>, keyBuf |-> << >>]],
     pc |-> "write", base |-> 1, si |-> 1, todo |-> {},
     calls |-> << >>, panicked |-> FALSE]

\* a map with key set to value
MapPut(m, key, value) ==
    [k \in (DOMAIN m) \cup {key} |-> IF k = key THEN value ELSE m[k]]

\* a lookup that makes a new group on every call
getStatsPipeGroup_alwaysNew(shard, funcs, key) ==
    [shard EXCEPT !.m = MapPut(@, key,
        [sfps |-> [i \in 1..Len(funcs) |-> newStatsFuncProcessor(funcs[i])]])]

\* a lookup that takes any stored key of the same length for the key
getStatsPipeGroup_sameLength(shard, funcs, key) ==
    IF \E k \in DOMAIN shard.m : Len(k) = Len(key) THEN shard
    ELSE [shard EXCEPT !.m = MapPut(@, key,
             [sfps |-> [i \in 1..Len(funcs) |-> newStatsFuncProcessor(funcs[i])]])]

\* a lookup that builds the accumulators of a new group in reverse order
getStatsPipeGroup_reversed(shard, funcs, key) ==
    IF key \in DOMAIN shard.m THEN shard
    ELSE [shard EXCEPT !.m = MapPut(@, key,
             [sfps |-> [i \in 1..Len(funcs) |->
                           newStatsFuncProcessor(funcs[Len(funcs) + 1 - i])]])]

\* statsPipeProcessorShard.getStatsPipeGroup: the shard after the call
getStatsPipeGroup(shard, funcs, key) ==
    IF key \in DOMAIN shard.m THEN shard
    ELSE [shard EXCEPT !.m = MapPut(@, key,
             [sfps |-> [i \in 1..Len(funcs) |-> newStatsFuncProcessor(funcs[i])]])]

\* the shard of statsPipeProcessor.writeBlock(workerID, ...) after the call
shard_writeBlock(shard0, stats, timestamps, columns) ==
    IF Len(stats.byFields) = 0
    THEN LET shard == getStatsPipeGroup(shard0, stats.funcs, << >>) IN
         [shard EXCEPT !.m[<< >>].sfps =
             [i \in 1..Len(@) |-> updateStatsForAllRows(@[i], timestamps, columns)]]
    ELSE
      LET columnIdxs == appendBlockColumnIndexes(<< >>, columns, stats.byFields)
          RECURSIVE Key(_, _, _)
          Key(keyBuf, k, i) ==
              IF k > Len(columnIdxs) THEN keyBuf
              ELSE LET v == IF columnIdxs[k] >= 0
                            THEN columns[columnIdxs[k] + 1].Values[i]
                            ELSE Empty
                   IN Key(MarshalBytes(keyBuf, v), k + 1, i)
          RECURSIVE Rows(_, _)
          Rows(sh, i) ==
              IF i > Len(timestamps) THEN sh
              ELSE LET keyBuf == Key(<< >>, 1, i)
                       shard == getStatsPipeGroup(sh, stats.funcs, keyBuf)
                   IN Rows([shard EXCEPT
                              !.keyBuf = keyBuf,
                              !.m[keyBuf].sfps =
                                  [j \in 1..Len(@) |->
                                      updateStatsForRow(@[j], timestamps, columns, i)]],
                           i + 1)
      IN Rows([shard0 EXCEPT !.columnIdxs = columnIdxs], 1)

\* a writeBlock that also hands its block on to ppBase
spp_writeBlock_forwarding(p, stats, workerID, timestamps, columns) ==
    [p EXCEPT !.shards[workerID + 1] = shard_writeBlock(@, stats, timestamps, columns),
              !.calls = Append(@, WriteBlockCall(workerID, timestamps, columns))]

\* a writeBlock whose key buffer is one buffer shared by all the shards
spp_writeBlock_sharedKeyBuf(p, stats, workerID, timestamps, columns) ==
    LET shard == shard_writeBlock(p.shards[workerID + 1], stats, timestamps, columns) IN
    [p EXCEPT !.shards = [w \in 1..Len(@) |->
                            IF w = workerID + 1 THEN shard
                            ELSE [@[w] EXCEPT !.keyBuf = shard.keyBuf]]]

\* statsPipeProcessor.writeBlock
spp_writeBlock(p, stats, workerID, timestamps, columns) ==
    [p EXCEPT !.shards[workerID + 1] = shard_writeBlock(@, stats, timestamps, columns)]

\* a return from flush that runs no deferred call
flush_return_plain(p) == [p EXCEPT !.pc = "done", !.todo = {}]

\* the deferred calls of statsPipeProcessor.flush: cancel(), ppBase.flush()
flush_return(p) ==
    [p EXCEPT !.pc = "done", !.todo = {}, !.calls = @ \o <<CancelCall, FlushCall>>]

\* a panic inside flush: the deferred calls run, the process goes down
flush_panic(p) == flush_return([p EXCEPT !.panicked = TRUE])

\* the shard that `shards[0]` names after `shards = shards[1:]`
flush_zeroRowsShard(p) == 2

\* flush between the merge loop and the emission loop
flush_afterMerge(p, stats) ==
    IF Len(stats.byFields) = 0 /\ DOMAIN p.shards[p.base].m = {}
    THEN LET z == flush_zeroRowsShard(p) IN
         IF z > Len(p.shards) THEN flush_panic(p)
         ELSE LET q == [p EXCEPT !.shards[z] = getStatsPipeGroup(@, stats.funcs, << >>),
                                 !.base = z]
              IN [q EXCEPT !.pc = "emit", !.todo = DOMAIN q.shards[z].m]
    ELSE [p EXCEPT !.pc = "emit", !.todo = DOMAIN p.shards[p.base].m]

RECURSIVE flush_advance(_, _)
\* flush up to the next loop iteration that polls stopCh
flush_advance(p, stats) ==
    IF p.pc = "merge"
    THEN IF p.si > Len(p.shards) THEN flush_advance(flush_afterMerge(p, stats), stats)
         ELSE IF p.todo = {}
              THEN LET si == p.si + 1 IN
                   flush_advance([p EXCEPT !.si = si,
                                           !.todo = IF si > Len(p.shards) THEN {}
                                                    ELSE DOMAIN p.shards[si].m],
                                 stats)
              ELSE p
    ELSE IF p.pc = "emit" /\ p.todo = {} THEN flush_return(p)
    ELSE p

\* a flush that merges no shard into the first one
flush_begin_noMerge(p, stats) ==
    flush_advance([p EXCEPT !.pc = "merge", !.base = 1, !.si = Len(p.shards) + 1,
                            !.todo = {}],
                  stats)

\* statsPipeProcessor.flush up to its first loop iteration
flush_begin(p, stats) ==
    flush_advance([p EXCEPT !.pc = "merge", !.base = 1, !.si = 2,
                            !.todo = IF Len(p.shards) >= 2 THEN DOMAIN p.shards[2].m ELSE {}],
                  stats)

\* one iteration of the merge loop of flush, for `key` of shard p.si
flush_mergeIter(p, stats, key, stopped) ==
    IF stopped THEN flush_return(p)
    ELSE
      LET spg == p.shards[p.si].m[key]
          m == p.shards[p.base].m
          merged == IF key \notin DOMAIN m THEN spg
                    ELSE [sfps |-> [i \in 1..Len(m[key].sfps) |->
                                       mergeState(m[key].sfps[i], spg.sfps[i]).dst]]
      IN flush_advance([p EXCEPT !.shards[p.base].m = MapPut(@, key, merged),
                                 !.todo = @ \ {key}],
                       stats)

RECURSIVE unmarshalValues_dropEmpty(_, _)
\* a decoder that leaves empty values out of the result
unmarshalValues_dropEmpty(keyBuf, values) ==
    IF Len(keyBuf) = 0 THEN [values |-> values, err |-> FALSE]
    ELSE LET r == UnmarshalBytes(keyBuf) IN
         IF r.err THEN [values |-> values, err |-> TRUE]
         ELSE unmarshalValues_dropEmpty(r.tail,
                  IF r.v = Empty THEN values ELSE Append(values, r.v))

RECURSIVE unmarshalValues(_, _)
\* the values decoded from a group key; err when a value cannot be decoded
unmarshalValues(keyBuf, values) ==
    IF Len(keyBuf) = 0 THEN [values |-> values, err |-> FALSE]
    ELSE LET r == UnmarshalBytes(keyBuf) IN
         IF r.err THEN [values |-> values, err |-> TRUE]
         ELSE unmarshalValues(r.tail, Append(values, r.v))

\* group columns with the stats columns ahead of the by-field columns
flush_groupColumns_statsFirst(stats, values, spg) ==
    [i \in 1..Len(spg.sfps) |->
        LET r == finalizeStats(spg.sfps[i]) IN [Name |-> r.name, Values |-> <<r.value>>]]
    \o [i \in 1..Len(stats.byFields) |-> [Name |-> stats.byFields[i], Values |-> <<values[i]>>]]

\* the block flush writes for the group spg stored under key
flush_groupColumns(stats, values, spg) ==
    [i \in 1..Len(stats.byFields) |-> [Name |-> stats.byFields[i], Values |-> <<values[i]>>]]
    \o [i \in 1..Len(spg.sfps) |->
           LET r == finalizeStats(spg.sfps[i]) IN [Name |-> r.name, Values |-> <<r.value>>]]

\* an iteration of the emission loop that does not look at stopCh
flush_emitIter_noPoll(p, stats, key, stopped) ==
    LET spg == p.shards[p.base].m[key]
        r == unmarshalValues(key, << >>)
    IN
    IF r.err \/ Len(r.values) # Len(stats.byFields) THEN flush_panic(p)
    ELSE flush_advance(
           [p EXCEPT !.calls = Append(@, WriteBlockCall(0, <<0>>,
                                          flush_groupColumns(stats, r.values, spg))),
                     !.todo = @ \ {key}],
           stats)

\* one iteration of the emission loop of flush, for `key` of the merged map
flush_emitIter(p, stats, key, stopped) ==
    IF stopped THEN flush_return(p)
    ELSE
      LET spg == p.shards[p.base].m[key]
          r == unmarshalValues(key, << >>)
      IN
      IF r.err \/ Len(r.values) # Len(stats.byFields) THEN flush_panic(p)
      ELSE flush_advance(
             [p EXCEPT !.calls = Append(@, WriteBlockCall(0, <<0>>,
                                            flush_groupColumns(stats, r.values, spg))),
                       !.todo = @ \ {key}],
             stats)

\* ----------------------------------------------- blockResult columns

\* byte(valueType) of the column value types
valueTypeString == 1

valueTypeDict == 2

valueTypeUint8 == 3

\* unsafe.Sizeof(""): the size of a string header
StringHeaderSize == 16

\* encoding.MarshalInt64: zig-zag, then 8 bytes, the high byte first
RECURSIVE BigEndian(_, _)
BigEndian(u, n) == IF n = 0 THEN << >> ELSE BigEndian(u \div 256, n - 1) \o <<u % 256>>

MarshalInt64(dst, v) ==
    LET u == IF v >= 0 THEN 2 * v ELSE -2 * v - 1
    IN dst \o BigEndian(u, 8)

\* the text of a timestamp: never empty, different for different timestamps
TimestampString(t) == IF t >= 0 THEN <<84>> \o FormatUint(t) ELSE <<84, 45>> \o FormatUint(-t)

\* blockResult.getColumns
getColumns(br) == br.cs

\* blockResult.getColumnByName: a const column with "" stands for a missing one
getColumnByName(br, name) ==
    IF \E i \in 1..Len(br.cs) : br.cs[i].name = name
    THEN br.cs[CHOOSE i \in 1..Len(br.cs) : br.cs[i].name = name]
    ELSE [name |-> name, isConst |-> TRUE, isTime |-> FALSE, valueType |-> valueTypeString,
          dictValues |-> << >>, encodedValues |-> <<Empty>>]

\* blockResultColumn.getEncodedValues
getEncodedValues(c, br) == c.encodedValues

\* blockResultColumn.getValueAtRow: the decoded value of row rowIdx (from 1)
getValueAtRow(c, br, rowIdx) ==
    IF c.isConst THEN c.encodedValues[1]
    ELSE IF c.isTime THEN TimestampString(br.timestamps[rowIdx])
    ELSE IF c.valueType = valueTypeString THEN c.encodedValues[rowIdx]
    ELSE IF c.valueType = valueTypeDict THEN c.dictValues[c.encodedValues[rowIdx][1] + 1]
    ELSE FormatUint(c.encodedValues[rowIdx][1])

\* blockResultColumn.getValues: the decoded values of all the rows
getValues(c, br) == [i \in 1..Len(br.timestamps) |-> getValueAtRow(c, br, i)]

\* slices.Index(dictValues, ""): from 0, -1 when there is none
IndexOfEmpty(dictValues) ==
    IF \E i \in 1..Len(dictValues) : dictValues[i] = Empty
    THEN (CHOOSE i \in 1..Len(dictValues) :
             /\ dictValues[i] = Empty
             /\ \A j \in 1..(i - 1) : dictValues[j] # Empty) - 1
    ELSE -1

\* ---------------------------------- stats_count.go: count over blockResult

\* a parser that sees `*` only when it stands alone
statsCount_starAlone(fields) ==
    [name |-> "count", fields |-> fields, containsStar |-> fields = <<"*">>]

\* parseStatsCount
statsCount(fields) == [name |-> "count", fields |-> fields, containsStar |-> Contains(fields, "*")]

\* statsCount.newStatsProcessor
sc_newStatsProcessor(sc) == [kind |-> "count", s |-> sc, rowsCount |-> 0]

\* a fast path that takes every dictionary entry for a non-empty value
scp_countAllRowsOfColumn_dictAll(c, br) ==
    LET n == Len(br.timestamps) IN
    IF c.isConst THEN (IF c.encodedValues[1] # Empty THEN n ELSE 0)
    ELSE IF c.isTime THEN n
    ELSE IF c.valueType = valueTypeString
         THEN Cardinality({ i \in 1..n : c.encodedValues[i] # Empty })
    ELSE n

\* the single-column fast path of statsCountProcessor.updateStatsForAllRows
scp_countAllRowsOfColumn(c, br) ==
    LET n == Len(br.timestamps) IN
    IF c.isConst THEN (IF c.encodedValues[1] # Empty THEN n ELSE 0)
    ELSE IF c.isTime THEN n
    ELSE IF c.valueType = valueTypeString
         THEN Cardinality({ i \in 1..n : c.encodedValues[i] # Empty })
    ELSE IF c.valueType = valueTypeDict
         THEN LET zeroDictIdx == IndexOfEmpty(c.dictValues) IN
              IF zeroDictIdx < 0 THEN n
              ELSE Cardinality({ i \in 1..n : c.encodedValues[i][1] # zeroDictIdx })
    ELSE n

\* the bitmap loop of the slow path: all when a field makes every row count
scp_filterBitmap(fields, br) ==
    LET n == Len(br.timestamps)
        RECURSIVE Loop(_, _)
        Loop(bm, k) ==
            IF k > Len(fields) THEN [all |-> FALSE, bm |-> bm]
            ELSE LET c == getColumnByName(br, fields[k])
                     EmptyString == { i \in 1..n : c.encodedValues[i] = Empty }
                     EmptyDict ==
                         { i \in 1..n : c.dictValues[c.encodedValues[i][1] + 1] = Empty }
                 IN
                 IF c.isConst
                 THEN IF c.encodedValues[1] # Empty THEN [all |-> TRUE, bm |-> bm]
                      ELSE Loop(bm, k + 1)
                 ELSE IF c.isTime THEN [all |-> TRUE, bm |-> bm]
                 ELSE IF c.valueType = valueTypeString
                      THEN Loop(forEachSetBit(bm, EmptyString), k + 1)
                 ELSE IF c.valueType = valueTypeDict
                      THEN IF ~Contains(c.dictValues, Empty) THEN [all |-> TRUE, bm |-> bm]
                           ELSE Loop(forEachSetBit(bm, EmptyDict), k + 1)
                 ELSE [all |-> TRUE, bm |-> bm]
    IN Loop(setBits(n), 1)

\* statsCountProcessor.updateStatsForAllRows: the state and the returned size
scp_updateStatsForAllRows(scp, br) ==
    LET fields == scp.s.fields
        n == Len(br.timestamps)
    IN
    IF scp.s.containsStar THEN [p |-> [scp EXCEPT !.rowsCount = @ + n], n |-> 0]
    ELSE IF Len(fields) = 1
    THEN [p |-> [scp EXCEPT !.rowsCount =
                    @ + scp_countAllRowsOfColumn(getColumnByName(br, fields[1]), br)],
          n |-> 0]
    ELSE LET r == scp_filterBitmap(fields, br) IN
         IF r.all THEN [p |-> [scp EXCEPT !.rowsCount = @ + n], n |-> 0]
         ELSE [p |-> [scp EXCEPT !.rowsCount = @ + n - Cardinality(r.bm)], n |-> 0]

\* a row-wise fast path that counts every row of a dict column
scp_countRowOfColumn_dictAll(c, br, rowIdx) ==
    IF c.isConst THEN (IF c.encodedValues[1] # Empty THEN 1 ELSE 0)
    ELSE IF c.isTime THEN 1
    ELSE IF c.valueType = valueTypeString
         THEN (IF c.encodedValues[rowIdx] # Empty THEN 1 ELSE 0)
    ELSE 1

\* the single-column fast path of statsCountProcessor.updateStatsForRow
scp_countRowOfColumn(c, br, rowIdx) ==
    IF c.isConst THEN (IF c.encodedValues[1] # Empty THEN 1 ELSE 0)
    ELSE IF c.isTime THEN 1
    ELSE IF c.valueType = valueTypeString
         THEN (IF c.encodedValues[rowIdx] # Empty THEN 1 ELSE 0)
    ELSE IF c.valueType = valueTypeDict
         THEN (IF c.dictValues[c.encodedValues[rowIdx][1] + 1] # Empty THEN 1 ELSE 0)
    ELSE 1

\* statsCountProcessor.updateStatsForRow: the state and the returned size
scp_updateStatsForRow(scp, br, rowIdx) ==
    LET fields == scp.s.fields IN
    IF scp.s.containsStar THEN [p |-> [scp EXCEPT !.rowsCount = @ + 1], n |-> 0]
    ELSE IF Len(fields) = 1
    THEN [p |-> [scp EXCEPT !.rowsCount =
                    @ + scp_countRowOfColumn(getColumnByName(br, fields[1]), br, rowIdx)],
          n |-> 0]
    ELSE IF \E k \in 1..Len(fields) :
              getValueAtRow(getColumnByName(br, fields[k]), br, rowIdx) # Empty
         THEN [p |-> [scp EXCEPT !.rowsCount = @ + 1], n |-> 0]
         ELSE [p |-> scp, n |-> 0]

\* statsCountProcessor.mergeState: [dst, src] after the call
scp_mergeState(scp, src) ==
    [dst |-> [scp EXCEPT !.rowsCount = @ + src.rowsCount], src |-> src]

\* statsCountProcessor.finalizeStats
scp_finalizeStats(scp) == FormatUint(scp.rowsCount)

\* ----------------------------------- stats_uniq.go: uniq over blockResult

\* parseStatsUniq
statsUniq(fields) == [name |-> "uniq", fields |-> fields, containsStar |-> Contains(fields, "*")]

\* statsUniq.newStatsProcessor (keyBuf and columnValues are scratch buffers,
\* cut to length 0 before every use, and hold nothing between calls)
su_newStatsProcessor(su) == [kind |-> "uniq", s |-> su, m |-> {}]

\* an insert that reports the length of the key without the string header
sup_insert_keyLenOnly(r, keyBuf) ==
    IF keyBuf \in r.p.m THEN r
    ELSE [p |-> [r.p EXCEPT !.m = @ \cup {keyBuf}], n |-> r.n + Len(keyBuf)]

\* `if _, ok := m[key]; !ok { m[key] = struct{}{}; stateSizeIncrease += ... }`
sup_insert(r, keyBuf) ==
    IF keyBuf \in r.p.m THEN r
    ELSE [p |-> [r.p EXCEPT !.m = @ \cup {keyBuf}],
          n |-> r.n + Len(keyBuf) + StringHeaderSize]

\* the key of a row of the time column
sup_timeKey(timestamp) == MarshalInt64(<<1>>, timestamp)

\* the key of a const value
sup_constKey(v) == <<0, valueTypeString>> \o v

\* the key of a dictionary entry
sup_dictKey(dictIdx) == <<0, valueTypeDict, dictIdx>>

\* a key that leaves the value type out
sup_valueKey_oneTag(valueType, v) == <<0, valueTypeString>> \o v

\* the key of an encoded value of a column with a value type
sup_valueKey(valueType, v) == <<0, valueType>> \o v

\* the key of a row for `*`: name and value of every column of the block
sup_starKey(br, rowIdx) ==
    LET columns == getColumns(br)
        RECURSIVE Key(_, _)
        Key(keyBuf, k) ==
            IF k > Len(columns) THEN keyBuf
            ELSE Key(MarshalBytes(MarshalBytes(keyBuf, NameBytes(columns[k].name)),
                                  getValueAtRow(columns[k], br, rowIdx)),
                     k + 1)
    IN Key(<< >>, 1)

\* the key of a row for several fields: the value of every field
sup_fieldsKey(fields, br, rowIdx) ==
    LET RECURSIVE Key(_, _)
        Key(keyBuf, k) ==
            IF k > Len(fields) THEN keyBuf
            ELSE Key(MarshalBytes(keyBuf,
                                  getValueAtRow(getColumnByName(br, fields[k]), br, rowIdx)),
                     k + 1)
    IN Key(<< >>, 1)

\* statsUniqProcessor.updateStatsForAllRows for `*`
sup_updateAllRowsStar(sup, br) ==
    LET columns == getColumns(br)
        seenKey(i) == \A k \in 1..Len(columns) :
                         i # 1 /\ getValues(columns[k], br)[i - 1] = getValues(columns[k], br)[i]
        allEmptyValues(i) == \A k \in 1..Len(columns) : getValueAtRow(columns[k], br, i) = Empty
        RECURSIVE Rows(_, _)
        Rows(r, i) ==
            IF i > Len(br.timestamps) THEN r
            ELSE IF seenKey(i) \/ allEmptyValues(i) THEN Rows(r, i + 1)
            ELSE Rows(sup_insert(r, sup_starKey(br, i)), i + 1)
    IN Rows([p |-> sup, n |-> 0], 1)

\* statsUniqProcessor.updateStatsForAllRows for one field
sup_updateAllRowsSingle(sup, br) ==
    LET c == getColumnByName(br, sup.s.fields[1])
        timestamps == br.timestamps
        RECURSIVE Times(_, _)
        Times(r, i) ==
            IF i > Len(timestamps) THEN r
            ELSE IF i > 1 /\ timestamps[i - 1] = timestamps[i] THEN Times(r, i + 1)
            ELSE Times(sup_insert(r, sup_timeKey(timestamps[i])), i + 1)
        RECURSIVE Dict(_, _)
        Dict(r, i) ==
            IF i > Len(c.dictValues) THEN r
            ELSE IF c.dictValues[i] = Empty THEN Dict(r, i + 1)
            ELSE Dict(sup_insert(r, sup_dictKey(i - 1)), i + 1)
        encodedValues == getEncodedValues(c, br)
        isStringValueType == c.valueType = valueTypeString
        RECURSIVE Encoded(_, _)
        Encoded(r, i) ==
            IF i > Len(encodedValues) THEN r
            ELSE IF isStringValueType /\ encodedValues[i] = Empty THEN Encoded(r, i + 1)
            ELSE IF i > 1 /\ encodedValues[i - 1] = encodedValues[i] THEN Encoded(r, i + 1)
            ELSE Encoded(sup_insert(r, sup_valueKey(c.valueType, encodedValues[i])), i + 1)
        r0 == [p |-> sup, n |-> 0]
    IN
    IF c.isTime THEN Times(r0, 1)
    ELSE IF c.isConst
         THEN (IF c.encodedValues[1] = Empty THEN r0
               ELSE sup_insert(r0, sup_constKey(c.encodedValues[1])))
    ELSE IF c.valueType = valueTypeDict THEN Dict(r0, 1)
    ELSE Encoded(r0, 1)

\* a run test that looks at the first field only
sup_updateAllRowsMulti_firstField(sup, br) ==
    LET fields == sup.s.fields
        columnValues == [k \in 1..Len(fields) |-> getValues(getColumnByName(br, fields[k]), br)]
        seenKey(i) == i # 1 /\ columnValues[1][i - 1] = columnValues[1][i]
        allEmptyValues(i) == \A k \in 1..Len(columnValues) : columnValues[k][i] = Empty
        RECURSIVE Rows(_, _)
        Rows(r, i) ==
            IF i > Len(br.timestamps) THEN r
            ELSE IF seenKey(i) \/ allEmptyValues(i) THEN Rows(r, i + 1)
            ELSE Rows(sup_insert(r, sup_fieldsKey(fields, br, i)), i + 1)
    IN Rows([p |-> sup, n |-> 0], 1)

\* statsUniqProcessor.updateStatsForAllRows for several fields
sup_updateAllRowsMulti(sup, br) ==
    LET fields == sup.s.fields
        columnValues == [k \in 1..Len(fields) |-> getValues(getColumnByName(br, fields[k]), br)]
        seenKey(i) == \A k \in 1..Len(columnValues) :
                         i # 1 /\ columnValues[k][i - 1] = columnValues[k][i]
        allEmptyValues(i) == \A k \in 1..Len(columnValues) : columnValues[k][i] = Empty
        RECURSIVE Rows(_, _)
        Rows(r, i) ==
            IF i > Len(br.timestamps) THEN r
            ELSE IF seenKey(i) \/ allEmptyValues(i) THEN Rows(r, i + 1)
            ELSE Rows(sup_insert(r, sup_fieldsKey(fields, br, i)), i + 1)
    IN Rows([p |-> sup, n |-> 0], 1)

\* statsUniqProcessor.updateStatsForAllRows: the state and the returned size
sup_updateStatsForAllRows(sup, br) ==
    IF sup.s.containsStar THEN sup_updateAllRowsStar(sup, br)
    ELSE IF Len(sup.s.fields) = 1 THEN sup_updateAllRowsSingle(sup, br)
    ELSE sup_updateAllRowsMulti(sup, br)

\* statsUniqProcessor.updateStatsForRow: the state and the returned size
sup_updateStatsForRow(sup, br, rowIdx) ==
    LET fields == sup.s.fields
        r0 == [p |-> sup, n |-> 0]
    IN
    IF sup.s.containsStar
    THEN IF \A k \in 1..Len(getColumns(br)) :
               getValueAtRow(getColumns(br)[k], br, rowIdx) = Empty
         THEN r0
         ELSE sup_insert(r0, sup_starKey(br, rowIdx))
    ELSE IF Len(fields) = 1
    THEN LET c == getColumnByName(br, fields[1]) IN
         IF c.isTime THEN sup_insert(r0, sup_timeKey(br.timestamps[rowIdx]))
         ELSE IF c.isConst
              THEN (IF c.encodedValues[1] = Empty THEN r0
                    ELSE sup_insert(r0, sup_constKey(c.encodedValues[1])))
         ELSE IF c.valueType = valueTypeDict
              THEN LET dictIdx == c.encodedValues[rowIdx][1] IN
                   IF c.dictValues[dictIdx + 1] = Empty THEN r0
                   ELSE sup_insert(r0, sup_dictKey(dictIdx))
         ELSE LET v == getEncodedValues(c, br)[rowIdx] IN
              IF c.valueType = valueTypeString /\ v = Empty THEN r0
              ELSE sup_insert(r0, sup_valueKey(c.valueType, v))
    ELSE IF \A k \in 1..Len(fields) :
              getValueAtRow(getColumnByName(br, fields[k]), br, rowIdx) = Empty
         THEN r0
         ELSE sup_insert(r0, sup_fieldsKey(fields, br, rowIdx))

\* a merge that takes the keys of src only when it has none of its own
sup_mergeState_keepOwn(sup, src) ==
    [dst |-> [sup EXCEPT !.m = IF @ = {} THEN src.m ELSE @], src |-> src]

\* statsUniqProcessor.mergeState: [dst, src] after the call
sup_mergeState(sup, src) ==
    [dst |-> [sup EXCEPT !.m = @ \cup src.m], src |-> src]

\* statsUniqProcessor.finalizeStats
sup_finalizeStats(sup) == FormatUint(Cardinality(sup.m))

\* ------------------------------------------ statsProcessor interface calls

newStatsProcessor(f) ==
    IF f.name = "count" THEN sc_newStatsProcessor(f) ELSE su_newStatsProcessor(f)

sp_updateStatsForAllRows(p, br) ==
    IF p.kind = "count" THEN scp_updateStatsForAllRows(p, br)
    ELSE sup_updateStatsForAllRows(p, br)

sp_updateStatsForRow(p, br, rowIdx) ==
    IF p.kind = "count" THEN scp_updateStatsForRow(p, br, rowIdx)
    ELSE sup_updateStatsForRow(p, br, rowIdx)

sp_mergeState(p, src) ==
    IF p.kind = "count" THEN scp_mergeState(p, src) ELSE sup_mergeState(p, src)

sp_finalizeStats(p) ==
    IF p.kind = "count" THEN scp_finalizeStats(p) ELSE sup_finalizeStats(p)

\* ------------------------------------------------------------ the inputs

\* the column lists a block can have
NameSeqs == { << >>, <<"a">>, <<"b">>, <<"a", "b">> }

\* the BlockColumn lists of n rows
BlockColumns(n) ==
    UNION { { [k \in 1..Len(names) |-> [Name |-> names[k], Values |-> vs[k]]] :
                vs \in [1..Len(names) -> [1..n -> Vals]] } : names \in NameSeqs }

\* timestamps of n rows (the stats pipe reads only their number)
ZeroTimestamps(n) == [i \in 1..n |-> 0]

\* count(*), count(b, *), count(b), uniq(b), uniq(a, b)
CountStar == [name |-> "count", fields |-> <<"*">>, resultName |-> "c"]

CountBStar == [name |-> "count", fields |-> <<"b", "*">>, resultName |-> "c"]

CountB == [name |-> "count", fields |-> <<"b">>, resultName |-> "c"]

UniqB == [name |-> "uniq", fields |-> <<"b">>, resultName |-> "u"]

UniqAB == [name |-> "uniq", fields |-> <<"a", "b">>, resultName |-> "u"]

\* the stats functions of the modelled queries
StatsFuncs == { <<CountStar>>, <<CountBStar>>, <<UniqB>>, <<UniqAB, CountB>> }

\* the modelled stats pipes: `stats [by (...)] funcs`
StatsPipes ==
    { [byFields |-> by, funcs |-> fs] : by \in { << >>, <<"a">> }, fs \in StatsFuncs }

\* ------------------------------- pipes.go: the fields, head and skip pipes

\* rows of a block given to a fields, head or skip processor
MaxLimitRows == 2

\* the largest n of `head n` and `skip n`
MaxLimit == 2

\* the worker goroutines that call writeBlock
LimitWorkers == { 0, 1 }

\* a call made by a processor: cancel(), ppBase.writeBlock of rows of the
\* block it was given (the rows from..from+rows-1 of len), ppBase.flush()
LimitCall(op, by, workerID, from, rows, len) ==
    [op |-> op, by |-> by, workerID |-> workerID, from |-> from, rows |-> rows, len |-> len]

\* a worker that is in no writeBlock call
IdleWorker == [pc |-> "idle", len |-> 0, rowsRemaining |-> 0]

\* fieldsPipe.newPipeProcessor, headPipe.newPipeProcessor (it calls cancel()
\* for `head 0`), skipPipe.newPipeProcessor
lp_newPipeProcessor(kind, n) ==
    [kind |-> kind, n |-> n, rowsWritten |-> 0, rowsSkipped |-> 0,
     workers |-> [w \in LimitWorkers |-> IdleWorker],
     calls |-> IF kind = "head" /\ n = 0
               THEN <<LimitCall("cancel", "newPipeProcessor", 0, 0, 0, 0)>>
               ELSE << >>,
     flushed |-> FALSE]

\* no processor of these pipes
NoLimitProcessor == [lp_newPipeProcessor("none", 0) EXCEPT !.flushed = TRUE]

\* fieldsPipeProcessor.writeBlock: the block goes to ppBase with its rows
fpp_writeBlock(p, workerID, len) ==
    [p EXCEPT !.calls = Append(@, LimitCall("writeBlock", "writeBlock", workerID, 0, len, len))]

\* a head processor that forwards the whole block that crosses the limit
hpp_writeBlockAdd_wholeBlock(p, workerID, len) ==
    LET rowsWritten == p.rowsWritten + len
        q == [p EXCEPT !.rowsWritten = rowsWritten]
    IN
    IF rowsWritten - len >= p.n /\ rowsWritten > p.n
    THEN [q EXCEPT !.workers[workerID] = [pc |-> "nothing", len |-> len, rowsRemaining |-> 0]]
    ELSE [q EXCEPT !.workers[workerID] = [pc |-> "all", len |-> len, rowsRemaining |-> 0]]

\* headPipeProcessor.writeBlock up to the branch it takes: rowsWritten.Add
hpp_writeBlockAdd(p, workerID, len) ==
    LET rowsWritten == p.rowsWritten + len
        q == [p EXCEPT !.rowsWritten = rowsWritten]
    IN
    IF rowsWritten <= p.n
    THEN [q EXCEPT !.workers[workerID] = [pc |-> "all", len |-> len, rowsRemaining |-> 0]]
    ELSE IF rowsWritten - len >= p.n
    THEN [q EXCEPT !.workers[workerID] = [pc |-> "nothing", len |-> len, rowsRemaining |-> 0]]
    ELSE [q EXCEPT !.workers[workerID] =
             [pc |-> "remaining", len |-> len, rowsRemaining |-> p.n - (rowsWritten - len)]]

\* a skip processor that forwards the whole block that crosses the offset
skpp_writeBlockAdd_wholeBlock(p, workerID, len) ==
    LET rowsSkipped == p.rowsSkipped + len
        q == [p EXCEPT !.rowsSkipped = rowsSkipped]
    IN
    IF rowsSkipped <= p.n
    THEN [q EXCEPT !.workers[workerID] = [pc |-> "nothing", len |-> len, rowsRemaining |-> 0]]
    ELSE [q EXCEPT !.workers[workerID] = [pc |-> "all", len |-> len, rowsRemaining |-> 0]]

\* skipPipeProcessor.writeBlock up to the branch it takes: rowsSkipped.Add
skpp_writeBlockAdd(p, workerID, len) ==
    LET rowsSkipped == p.rowsSkipped + len
        q == [p EXCEPT !.rowsSkipped = rowsSkipped]
    IN
    IF rowsSkipped <= p.n
    THEN [q EXCEPT !.workers[workerID] = [pc |-> "nothing", len |-> len, rowsRemaining |-> 0]]
    ELSE IF rowsSkipped - len >= p.n
    THEN [q EXCEPT !.workers[workerID] = [pc |-> "all", len |-> len, rowsRemaining |-> 0]]
    ELSE [q EXCEPT !.workers[workerID] =
             [pc |-> "remaining", len |-> len, rowsRemaining |-> p.n - (rowsSkipped - len)]]

\* the next step of the writeBlock call of a worker
lpp_writeBlockStep(p, workerID) ==
    LET w == p.workers[workerID] IN
    IF w.pc = "all"
    THEN [p EXCEPT !.calls = Append(@, LimitCall("writeBlock", "writeBlock", workerID,
                                                  0, w.len, w.len)),
                   !.workers[workerID] = IdleWorker]
    ELSE IF w.pc = "nothing"
    THEN [p EXCEPT !.workers[workerID] = IdleWorker]
    ELSE IF w.pc = "remaining" /\ p.kind = "head"
    THEN [p EXCEPT !.calls = Append(@, LimitCall("writeBlock", "writeBlock", workerID,
                                                  0, w.rowsRemaining, w.len)),
                   !.workers[workerID].pc = "cancel"]
    ELSE IF w.pc = "remaining"
    THEN [p EXCEPT !.calls = Append(@, LimitCall("writeBlock", "writeBlock", workerID,
                                                  w.rowsRemaining, w.len - w.rowsRemaining,
                                                  w.len)),
                   !.workers[workerID] = IdleWorker]
    ELSE [p EXCEPT !.calls = Append(@, LimitCall("cancel", "writeBlock", workerID, 0, 0, 0)),
                   !.workers[workerID] = IdleWorker]

\* fieldsPipeProcessor.flush, headPipeProcessor.flush, skipPipeProcessor.flush
lpp_flush(p) ==
    [p EXCEPT !.calls = @ \o <<LimitCall("cancel", "flush", 0, 0, 0, 0),
                               LimitCall("flush", "flush", 0, 0, 0, 0)>>,
              !.flushed = TRUE]

\* ------------------------------------------------------------- the state

VARIABLES
    sp,        \* the statsPipe of the query
    spp,       \* its statsPipeProcessor, with workersCount workers
    spp1,      \* the statsPipeProcessor of the same query run with one worker
    stopCh,    \* "open" or "closed"
    writes,    \* number of writeBlock calls made so far
    rowsIn,    \* history: how many times each row was written to the stats pipe
    sf,        \* the stats function whose processors are exercised on their own
    sps,       \* its processors over blockResult (stats_count.go, stats_uniq.go)
    sfps,      \* its processors over BlockColumn (pipes.go), given the same rows
    fed,       \* history: what the rows folded into each processor amount to
    built,     \* history: the uniq keys built for one field, with the column type
    updates,   \* number of update and merge calls made so far
    lpp        \* the processor of a fields, head or skip pipe, with its workers

statsVars == <<sp, spp, spp1, stopCh, writes, rowsIn>>

funcVars == <<sf, sps, sfps, fed, built, updates>>

limitVars == <<lpp>>

vars == <<sp, spp, spp1, stopCh, writes, rowsIn, sf, sps, sfps, fed, built, updates, lpp>>

\* the field names of the modelled blocks
ColNames == { "a", "b" }

\* a log row: its value for every field, the empty value for a field it lacks
Rows == [ColNames -> Vals]

\* row i of a block of BlockColumn
RowAt(columns, i) ==
    [f \in ColNames |->
        IF getBlockColumnIndex(columns, f) >= 0
        THEN columns[getBlockColumnIndex(columns, f) + 1].Values[i]
        ELSE Empty]

\* how many of the rows 1..n of the block are the row r
RowCount(columns, n, r) == Cardinality({ i \in 1..n : RowAt(columns, i) = r })

\* ----------------------------------------------- the stats pipe at work

StatsInit ==
    /\ sp \in StatsPipes
    /\ \E workersCount \in WorkerCounts : spp = sp_newPipeProcessor(workersCount)
    /\ spp1 = sp_newPipeProcessor(1)
    /\ stopCh = "open"
    /\ writes = 0
    /\ rowsIn = [r \in Rows |-> 0]
    /\ sf = statsCount(<< >>)
    /\ sps = << >>
    /\ sfps = << >>
    /\ fed = << >>
    /\ built = {}
    /\ updates = 0
    /\ lpp = NoLimitProcessor

\* a worker writes a block (writers stop once the query is cancelled)
WriteBlock ==
    /\ spp.pc = "write"
    /\ stopCh = "open"
    /\ writes < MaxWrites
    /\ \E workerID \in 0..(Len(spp.shards) - 1), n \in 0..MaxRows :
         \E columns \in BlockColumns(n) :
           /\ spp' = spp_writeBlock(spp, sp, workerID, ZeroTimestamps(n), columns)
           /\ rowsIn' = [r \in Rows |-> rowsIn[r] + RowCount(columns, n, r)]
    /\ writes' = writes + 1
    /\ UNCHANGED <<sp, spp1, stopCh, funcVars, limitVars>>

\* the runtime closes stopCh
CloseStopCh ==
    /\ stopCh = "open"
    /\ stopCh' = "closed"
    /\ UNCHANGED <<sp, spp, spp1, writes, rowsIn, funcVars, limitVars>>

\* flush() is called once the writers are done
FlushBegin ==
    /\ spp.pc = "write"
    /\ spp' = flush_begin(spp, sp)
    /\ UNCHANGED <<sp, spp1, stopCh, writes, rowsIn, funcVars, limitVars>>

FlushMergeIter ==
    /\ spp.pc = "merge"
    /\ \E key \in spp.todo : spp' = flush_mergeIter(spp, sp, key, stopCh = "closed")
    /\ UNCHANGED <<sp, spp1, stopCh, writes, rowsIn, funcVars, limitVars>>

FlushEmitIter ==
    /\ spp.pc = "emit"
    /\ \E key \in spp.todo : spp' = flush_emitIter(spp, sp, key, stopCh = "closed")
    /\ UNCHANGED <<sp, spp1, stopCh, writes, rowsIn, funcVars, limitVars>>

StatsNext ==
    \/ WriteBlock
    \/ CloseStopCh
    \/ FlushBegin
    \/ FlushMergeIter
    \/ FlushEmitIter

Spec == StatsInit /\ [][StatsNext]_vars

\* ------------------------- the same blocks through one worker (for P1)

\* a worker writes a block, and the one-worker run is given the same block
WriteBlockBoth ==
    /\ spp.pc = "write"
    /\ stopCh = "open"
    /\ writes < MaxWrites
    /\ \E workerID \in 0..(Len(spp.shards) - 1), n \in 0..MaxRows :
         \E columns \in BlockColumns(n) :
           /\ spp' = spp_writeBlock(spp, sp, workerID, ZeroTimestamps(n), columns)
           /\ spp1' = spp_writeBlock(spp1, sp, 0, ZeroTimestamps(n), columns)
           /\ rowsIn' = [r \in Rows |-> rowsIn[r] + RowCount(columns, n, r)]
    /\ writes' = writes + 1
    /\ UNCHANGED <<sp, stopCh, funcVars, limitVars>>

\* the one-worker run is flushed after the other one
Flush1Begin ==
    /\ spp.pc = "done" /\ spp1.pc = "write"
    /\ spp1' = flush_begin(spp1, sp)
    /\ UNCHANGED <<sp, spp, stopCh, writes, rowsIn, funcVars, limitVars>>

Flush1EmitIter ==
    /\ spp1.pc = "emit"
    /\ \E key \in spp1.todo : spp1' = flush_emitIter(spp1, sp, key, stopCh = "closed")
    /\ UNCHANGED <<sp, spp, stopCh, writes, rowsIn, funcVars, limitVars>>

ShardsNext ==
    \/ WriteBlockBoth
    \/ FlushBegin
    \/ FlushMergeIter
    \/ FlushEmitIter
    \/ Flush1Begin
    \/ Flush1EmitIter

SpecShards == StatsInit /\ [][ShardsNext]_vars

\* ------------------------------------------ what the stats pipe emitted

\* the blocks p wrote to ppBase, in order
RECURSIVE BlocksWritten(_)
BlocksWritten(calls) ==
    IF calls = << >> THEN << >>
    ELSE IF Head(calls).op = "writeBlock"
         THEN <<Head(calls)>> \o BlocksWritten(Tail(calls))
         ELSE BlocksWritten(Tail(calls))

\* how often x occurs in the sequence s
Occurrences(s, x) == Cardinality({ i \in 1..Len(s) : s[i] = x })

\* the sequences s and t hold the same elements, each as often
SameBag(s, t) ==
    /\ Len(s) = Len(t)
    /\ \A i \in 1..Len(s) : Occurrences(s, s[i]) = Occurrences(t, s[i])

\* the by-field values of a row
GroupOf(r) == [k \in 1..Len(sp.byFields) |-> r[sp.byFields[k]]]

\* the by-field values an emitted block carries
GroupOfBlock(call) == [k \in 1..Len(sp.byFields) |-> call.columns[k].Values[1]]

\* the value an emitted block carries for the i-th stats function
StatsValue(call, i) == call.columns[Len(sp.byFields) + i].Values[1]

\* the distinct rows written so far that belong to group g
RowsOfGroup(g) == { r \in Rows : rowsIn[r] > 0 /\ GroupOf(r) = g }

\* the values of the row r for fields
Project(r, fields) == [k \in 1..Len(fields) |-> r[fields[k]]]

AllEmpty(values) == \A k \in 1..Len(values) : values[k] = Empty

\* ---------------------------------------------------------------- C1
\* C1: when flush has completed with stopCh open, the rows emitted by the
\* run with workersCount >= 2 workers are, as a multiset, the rows emitted
\* when the same blocks go through a single worker.
C1_ShardsEmitWhatOneWorkerEmits ==
    (/\ spp.pc = "done" /\ spp1.pc = "done"
     /\ stopCh = "open"
     /\ Len(spp.shards) >= 2)
    => /\ spp.panicked = spp1.panicked
       /\ SameBag(BlocksWritten(spp.calls), BlocksWritten(spp1.calls))

\* ---------------------------------------------------------------- C2
\* C2: flush of a stats pipe with no by-fields that got no writeBlock call,
\* with stopCh open, does not crash and writes exactly one block of one
\* row, in which every count function has the value "0".
C2_ZeroRowsFlushEmitsZero ==
    (/\ spp.pc = "done"
     /\ sp.byFields = << >>
     /\ writes = 0
     /\ stopCh = "open")
    => /\ ~spp.panicked
       /\ Len(BlocksWritten(spp.calls)) = 1
       /\ LET call == BlocksWritten(spp.calls)[1] IN
          /\ Len(call.timestamps) = 1
          /\ \A i \in 1..Len(sp.funcs) :
               sp.funcs[i].name = "count" => StatsValue(call, i) = <<48>>

\* ---------------------------------------------------------------- C8
\* C8: with by-fields, the value emitted for a uniq function over two or
\* more fields is the number of distinct value tuples, not all empty, among
\* the rows of the emitted group.
C8_GroupUniqCountsDistinctTuples ==
    \A c \in 1..Len(spp.calls) :
      (spp.calls[c].op = "writeBlock" /\ sp.byFields # << >>) =>
        \A i \in 1..Len(sp.funcs) :
          (sp.funcs[i].name = "uniq" /\ Len(sp.funcs[i].fields) >= 2) =>
            StatsValue(spp.calls[c], i) =
              FormatUint(Cardinality(
                { t \in { Project(r, sp.funcs[i].fields) :
                            r \in RowsOfGroup(GroupOfBlock(spp.calls[c])) } :
                    ~AllEmpty(t) }))

\* ------------------------------------------- blockResult input blocks

\* a const column
ConstColumn(name, v) ==
    [name |-> name, isConst |-> TRUE, isTime |-> FALSE, valueType |-> valueTypeString,
     dictValues |-> << >>, encodedValues |-> <<v>>]

\* the time column
TimeColumn(name) ==
    [name |-> name, isConst |-> FALSE, isTime |-> TRUE, valueType |-> valueTypeString,
     dictValues |-> << >>, encodedValues |-> << >>]

\* a column with a value type
TypedColumn(name, valueType, dictValues, encodedValues) ==
    [name |-> name, isConst |-> FALSE, isTime |-> FALSE, valueType |-> valueType,
     dictValues |-> dictValues, encodedValues |-> encodedValues]

\* the dictionaries of the dict columns
DictsOf(vals) ==
    IF vals = Vals THEN { <<Empty, <<1>>>> }
    ELSE { << <<1>> >>, << <<2>> >>, <<Empty, <<1>>>> }

\* the columns named name of a block of n rows, with values among vals
ColumnsNamed(name, n, vals, typed) ==
    { ConstColumn(name, v) : v \in vals }
    \cup { TimeColumn(name) }
    \cup { TypedColumn(name, valueTypeString, << >>, ev) : ev \in [1..n -> vals] }
    \cup IF ~typed THEN {}
         ELSE UNION { { TypedColumn(name, valueTypeDict, d, ev) :
                          ev \in [1..n -> { <<i>> : i \in 0..(Len(d) - 1) }] } :
                      d \in DictsOf(vals) }
              \cup { TypedColumn(name, valueTypeUint8, << >>, [i \in 1..n |-> <<1>>]) }

\* the column lists of the blocks given to the processors of f
InputNameSeqs(f) ==
    IF f.name = "uniq" /\ f.containsStar
    THEN { << >>, <<"a">>, <<"a", "b">>, <<"b", "a">> }
    ELSE IF Len(f.fields) >= 2 THEN { << >>, <<"a">>, <<"b">>, <<"a", "b">> }
    ELSE IF Contains(f.fields, "b") THEN { << >>, <<"b">> }
    ELSE { << >>, <<"a">> }

\* the values of the columns of a block with these columns
InputVals(names) == IF names = <<"a">> THEN Vals \cup { <<2>> } ELSE Vals

\* the paths of uniq over whole rows read decoded values only
InputTyped(f, names) == f.name = "count" \/ Len(names) = 1

\* timestamps of a block of n rows: they never decrease
Timestamps(n) == { ts \in [1..n -> {0, 1}] : \A i \in 1..(n - 1) : ts[i] <= ts[i + 1] }

\* the timestamps matter to the time column only
TimestampsOf(cs, n) ==
    IF \E k \in 1..Len(cs) : cs[k].isTime THEN Timestamps(n) ELSE { ZeroTimestamps(n) }

\* the column lists with these names of a block of n rows
ColumnLists(f, names, n) ==
    { c \in [1..Len(names) -> UNION { ColumnsNamed(nm, n, InputVals(names), InputTyped(f, names)) :
                                       nm \in ColNames }] :
        \A k \in 1..Len(names) : c[k].name = names[k] }

\* the blocks of n rows given to the processors of f
BlockResults(f, n) ==
    UNION { UNION { { [timestamps |-> ts, cs |-> cs] : ts \in TimestampsOf(cs, n) } :
                    cs \in ColumnLists(f, names, n) } :
            names \in InputNameSeqs(f) }

\* the block as the list of BlockColumn that pipes.go is given
AsBlockColumns(br) ==
    [k \in 1..Len(br.cs) |-> [Name |-> br.cs[k].name, Values |-> getValues(br.cs[k], br)]]

\* the stats function of pipes.go for f
AsStatsFunc(f) == [name |-> f.name, fields |-> f.fields, resultName |-> "r"]

\* ------------------------------------- what the folded rows amount to

\* the fields f reads from a row: all of them for `*`
NamedFields(f) == IF Contains(f.fields, "*") THEN <<"a", "b">> ELSE f.fields

\* the decoded value of field name in row i
Decoded(br, name, i) == getValueAtRow(getColumnByName(br, name), br, i)

\* the values of the fields of f in row i
Projection(f, br, i) == [k \in 1..Len(NamedFields(f)) |-> Decoded(br, NamedFields(f)[k], i)]

\* the rows of the block in which some field of f is not empty
Hits(f, br, rows) == { i \in rows : ~AllEmpty(Projection(f, br, i)) }

\* h after the rows of br were folded
Fold(h, f, br, rows) ==
    [merges |-> h.merges,
     rows |-> h.rows + Cardinality(rows),
     hits |-> h.hits + Cardinality(Hits(f, br, rows)),
     proj |-> IF f.name = "uniq"
              THEN h.proj \cup { Projection(f, br, i) : i \in Hits(f, br, rows) }
              ELSE {}]

\* the column type a key of the one-field uniq paths is built under
KeyClass(c) ==
    IF c.isTime THEN "time"
    ELSE IF c.isConst \/ c.valueType = valueTypeString THEN "string"
    ELSE IF c.valueType = valueTypeDict THEN "dict"
    ELSE "uint8"

\* the keys the update r made of a new processor built, with the type of the column
BuiltBy(f, br, r) ==
    IF f.name = "uniq" /\ ~f.containsStar /\ Len(f.fields) = 1
    THEN { <<key, KeyClass(getColumnByName(br, f.fields[1]))>> : key \in r.p.m }
    ELSE {}

\* ------------------------------------------ the processors on their own

FuncsInit(funcs, n, withBlockColumns) ==
    /\ sf \in funcs
    /\ sps = [k \in 1..n |-> newStatsProcessor(sf)]
    /\ sfps = IF withBlockColumns
              THEN [k \in 1..n |-> newStatsFuncProcessor(AsStatsFunc(sf))]
              ELSE << >>
    /\ fed = [k \in 1..n |-> [merges |-> 0, rows |-> 0, hits |-> 0, proj |-> {}]]
    /\ built = {}
    /\ updates = 0
    /\ sp = [byFields |-> << >>, funcs |-> << >>]
    /\ spp = sp_newPipeProcessor(1)
    /\ spp1 = sp_newPipeProcessor(1)
    /\ stopCh = "open"
    /\ writes = 0
    /\ rowsIn = [r \in Rows |-> 0]
    /\ lpp = NoLimitProcessor

\* updateStatsForAllRows(br) on processor k
UpdateAllRows ==
    /\ updates < MaxWrites
    /\ \E k \in 1..Len(sps), n \in 0..MaxRows :
         \E br \in BlockResults(sf, n) :
           /\ sps' = [sps EXCEPT ![k] = sp_updateStatsForAllRows(@, br).p]
           /\ sfps' = [j \in 1..Len(sfps) |->
                         IF j = k
                         THEN updateStatsForAllRows(sfps[j], br.timestamps, AsBlockColumns(br))
                         ELSE sfps[j]]
           /\ fed' = [fed EXCEPT ![k] = Fold(@, sf, br, 1..n)]
           /\ built' = built \cup
                  BuiltBy(sf, br, sp_updateStatsForAllRows(newStatsProcessor(sf), br))
    /\ updates' = updates + 1
    /\ UNCHANGED <<sf, statsVars, limitVars>>

\* updateStatsForRow(br, i) on processor k
UpdateRow ==
    /\ updates < MaxWrites
    /\ \E k \in 1..Len(sps), n \in 1..MaxRows :
         \E br \in BlockResults(sf, n), i \in 1..n :
           /\ sps' = [sps EXCEPT ![k] = sp_updateStatsForRow(@, br, i).p]
           /\ sfps' = [j \in 1..Len(sfps) |->
                         IF j = k
                         THEN updateStatsForRow(sfps[j], br.timestamps, AsBlockColumns(br), i)
                         ELSE sfps[j]]
           /\ fed' = [fed EXCEPT ![k] = Fold(@, sf, br, {i})]
           /\ built' = built \cup
                  BuiltBy(sf, br, sp_updateStatsForRow(newStatsProcessor(sf), br, i))
    /\ updates' = updates + 1
    /\ UNCHANGED <<sf, statsVars, limitVars>>

\* processor k merges the state of processor j
MergeState ==
    /\ updates < MaxWrites + MaxMerges
    /\ \E k \in 1..Len(sps), j \in 1..Len(sps) :
         /\ k # j
         /\ sps' = [sps EXCEPT ![k] = sp_mergeState(sps[k], sps[j]).dst,
                               ![j] = sp_mergeState(sps[k], sps[j]).src]
         /\ sfps' = [l \in 1..Len(sfps) |->
                       IF l = k THEN mergeState(sfps[k], sfps[j]).dst
                       ELSE IF l = j THEN mergeState(sfps[k], sfps[j]).src
                       ELSE sfps[l]]
         /\ fed' = [fed EXCEPT ![k] = [merges |-> @.merges + 1,
                                       rows |-> @.rows + fed[j].rows,
                                       hits |-> @.hits + fed[j].hits,
                                       proj |-> @.proj \cup fed[j].proj]]
    /\ updates' = updates + 1
    /\ UNCHANGED <<sf, built, statsVars, limitVars>>

FuncsNext == UpdateAllRows \/ UpdateRow \/ MergeState

\* count(...) processors of both files
CountFuncs ==
    { statsCount(<< >>), statsCount(<<"*">>), statsCount(<<"a", "*">>),
      statsCount(<<"a">>), statsCount(<<"b">>), statsCount(<<"a", "b">>) }

SpecCount == FuncsInit(CountFuncs, 2, TRUE) /\ [][FuncsNext]_vars

\* uniq(a) processors of stats_uniq.go
SpecUniqField == FuncsInit({ statsUniq(<<"a">>) }, 2, FALSE) /\ [][FuncsNext]_vars

\* uniq(*) and uniq(a, b) processors of stats_uniq.go
SpecUniqRows ==
    FuncsInit({ statsUniq(<<"*">>), statsUniq(<<"a", "b">>) }, 2, FALSE) /\ [][FuncsNext]_vars

\* three partial states of count(b) and of uniq(b)
SpecMerge ==
    FuncsInit({ statsCount(<<"b">>), statsUniq(<<"b">>) }, 3, TRUE) /\ [][FuncsNext]_vars

\* ------------------------------------------ claims about the processors

\* C3: for count(f1,...,fk) without `*` the counter is the number of the
\* input rows in which some f_j is not empty, for every kind of column
C3_CountIsRowsWithNonEmptyField ==
    (sf.name = "count" /\ ~Contains(sf.fields, "*") /\ Len(sf.fields) >= 1)
    => \A k \in 1..Len(sps) :
         /\ sps[k].rowsCount = fed[k].hits
         /\ sfps[k].rowsCount = fed[k].hits

\* count(a, b) went over a row with a value and over a row with none
C3_Witness ==
    /\ sf = statsCount(<<"a", "b">>)
    /\ \E k \in 1..Len(sps) :
         /\ fed[k].merges = 0
         /\ fed[k].rows = 2
         /\ fed[k].hits = 1
         /\ sps[k].rowsCount = 1

\* C4: a count whose fields contain `*` gives the number of all the rows,
\* whatever the columns of the blocks
C4_CountStarIsRowCount ==
    (sf.name = "count" /\ Contains(sf.fields, "*"))
    => \A k \in 1..Len(sps) :
         /\ sp_finalizeStats(sps[k]) = FormatUint(fed[k].rows)
         /\ finalizeStats(sfps[k]).value = FormatUint(fed[k].rows)

\* count(a, *) went over two rows in which every value is empty
C4_Witness ==
    /\ sf = statsCount(<<"a", "*">>)
    /\ \E k \in 1..Len(sps) :
         /\ fed[k].merges = 0
         /\ fed[k].rows = 2
         /\ fed[k].hits = 0
         /\ sp_finalizeStats(sps[k]) = <<50>>

\* C5: a count with no fields counts all the rows, as count(*) does
C5_CountNoFieldsIsRowCount ==
    (sf.name = "count" /\ sf.fields = << >>)
    => \A k \in 1..Len(sps) : sps[k].rowsCount = fed[k].rows

\* C6: uniq(f) gives the number of the distinct non-empty values of f,
\* whatever the types and the dictionaries of f in the blocks
C6_UniqIsDistinctValues ==
    (sf.name = "uniq" /\ ~sf.containsStar /\ Len(sf.fields) = 1)
    => \A k \in 1..Len(sps) :
         sp_finalizeStats(sps[k]) = FormatUint(Cardinality(fed[k].proj))

\* C7: uniq(*) gives the number of the distinct rows that are not all
\* empty, a row being the mapping from the column names to the values
C7_UniqStarIsDistinctRows ==
    (sf.name = "uniq" /\ sf.containsStar)
    => \A k \in 1..Len(sps) :
         sp_finalizeStats(sps[k]) = FormatUint(Cardinality(fed[k].proj))

\* payloads of keys, among them some as long as the timestamp of a time key
KeyPayloads ==
    { << >>, <<0>>, <<1>>, <<2>>, <<1, 0>>, BigEndian(0, 7), BigEndian(0, 8) }

KeyValueTypes == { valueTypeString, valueTypeDict, valueTypeUint8 }

KeyTimestamps == { -1, 0, 1 }

\* C9: in the one-field uniq paths a key of the time column equals no key
\* of another column, and keys of two value types are never equal
C9_KeysOfDifferentTypesDiffer ==
    /\ \A p \in built : \A q \in built : p[1] = q[1] => p[2] = q[2]
    /\ \A x \in KeyPayloads : \A t \in KeyValueTypes :
         /\ \A ts \in KeyTimestamps : sup_timeKey(ts) # sup_valueKey(t, x)
         /\ \A y \in KeyPayloads : \A u \in KeyValueTypes :
              t # u => sup_valueKey(t, x) # sup_valueKey(u, y)

\* a uint8 column and a string column gave keys with the same payload
C9_Witness ==
    \E p \in built : \E q \in built :
      /\ p[2] = "uint8"
      /\ q[2] = "string"
      /\ Tail(Tail(p[1])) = Tail(Tail(q[1]))

\* C10: mergeState is associative and commutative on the finalized value
\* (the sum of the counters, the union of the key sets) and leaves the
\* source state as it was
C10_MergeAssociativeCommutative ==
    /\ \A i \in 1..Len(sps) : \A j \in 1..Len(sps) \ {i} :
         LET r == sp_mergeState(sps[i], sps[j]) IN
         /\ r.src = sps[j]
         /\ sp_finalizeStats(r.dst) = sp_finalizeStats(sp_mergeState(sps[j], sps[i]).dst)
         /\ sps[i].kind = "count" => r.dst.rowsCount = sps[i].rowsCount + sps[j].rowsCount
         /\ sps[i].kind = "uniq" => r.dst.m = sps[i].m \cup sps[j].m
         /\ \A l \in 1..Len(sps) \ {i, j} :
              sp_finalizeStats(sp_mergeState(r.dst, sps[l]).dst)
              = sp_finalizeStats(sp_mergeState(sps[i], sp_mergeState(sps[j], sps[l]).dst).dst)
    /\ \A i \in 1..Len(sfps) : \A j \in 1..Len(sfps) \ {i} :
         LET r == mergeState(sfps[i], sfps[j]) IN
         /\ r.src = sfps[j]
         /\ finalizeStats(r.dst).value = finalizeStats(mergeState(sfps[j], sfps[i]).dst).value
         /\ \A l \in 1..Len(sfps) \ {i, j} :
              finalizeStats(mergeState(r.dst, sfps[l]).dst).value
              = finalizeStats(mergeState(sfps[i], mergeState(sfps[j], sfps[l]).dst).dst).value

\* a uniq state merged another one, each with a key the other one lacked
C10_Witness ==
    /\ sf.name = "uniq"
    /\ Len(sps) = 3
    /\ \E k \in 1..Len(sps) : \E j \in 1..Len(sps) \ {k} :
         /\ fed[k].merges = 1
         /\ fed[j].merges = 0
         /\ sps[j].m # {}
         /\ sps[j].m \subseteq sps[k].m
         /\ sps[k].m \ sps[j].m # {}

\* --------------------------------- runs of equal rows in a block of uniq

\* the columns named name of a block of n rows that go the time path or
\* the path of the plain types when they are the one field of uniq
RunColumnsNamed(name, n) ==
    { TimeColumn(name) }
    \cup { TypedColumn(name, valueTypeString, << >>, ev) : ev \in [1..n -> Vals] }
    \cup { TypedColumn(name, valueTypeUint8, << >>, ev) : ev \in [1..n -> { <<1>>, <<2>> }] }

\* the columns named name next to another column: the paths over whole rows
\* read decoded values only
RunColumnsBeside(name, n) ==
    { ConstColumn(name, v) : v \in Vals }
    \cup { TypedColumn(name, valueTypeString, << >>, ev) : ev \in [1..n -> Vals] }

\* the column lists of the blocks of n rows with runs
RunColumnLists(f, n) ==
    { <<ca>> : ca \in RunColumnsNamed("a", n) }
    \cup IF Len(f.fields) = 1 /\ ~f.containsStar THEN {}
         ELSE { <<ca, cb>> : ca \in { TimeColumn("a") } \cup RunColumnsBeside("a", n),
                             cb \in RunColumnsBeside("b", n) }

\* the blocks of n rows with runs, given to the processors of f
RunBlockResults(f, n) ==
    UNION { { [timestamps |-> ts, cs |-> cs] : ts \in TimestampsOf(cs, n) } :
            cs \in RunColumnLists(f, n) }

\* updateStatsForRow for every row of the block, one after the other
RECURSIVE sup_updateEveryRow(_, _, _)
sup_updateEveryRow(sup, br, rowIdx) ==
    IF rowIdx > Len(br.timestamps) THEN sup
    ELSE sup_updateEveryRow(sup_updateStatsForRow(sup, br, rowIdx).p, br, rowIdx + 1)

\* the first processor is given the block as a whole, the second row by row
UpdateRuns ==
    /\ updates < MaxRunBlocks
    /\ Len(sps) = 2
    /\ \E n \in 0..MaxRunRows :
         \E br \in RunBlockResults(sf, n) :
           /\ sps' = [sps EXCEPT ![1] = sup_updateStatsForAllRows(@, br).p,
                                 ![2] = sup_updateEveryRow(@, br, 1)]
           /\ fed' = [fed EXCEPT ![1] = Fold(@, sf, br, 1..n)]
    /\ updates' = updates + 1
    /\ UNCHANGED <<sf, sfps, built, statsVars, limitVars>>

\* uniq(*), uniq(a) and uniq(a, b) over blocks with runs of equal rows
SpecRuns ==
    FuncsInit({ statsUniq(<<"*">>), statsUniq(<<"a">>), statsUniq(<<"a", "b">>) }, 2, FALSE)
    /\ [][UpdateRuns]_vars

\* C11: collapsing the runs of equal rows loses no key: the keys after
\* updateStatsForAllRows are the keys of the rows inserted one by one
C11_RunCollapseLosesNoKey ==
    (Len(sps) = 2 /\ sf.name = "uniq") => sps[1].m = sps[2].m

\* one block of three rows, none of them skipped as empty, gave two keys
C11_Witness ==
    /\ sf = statsUniq(<<"a", "b">>)
    /\ updates = 1
    /\ fed[1].rows = 3
    /\ fed[1].hits = 3
    /\ Cardinality(sps[1].m) = 2
    /\ sps[2].m = sps[1].m

\* ----------------------------- the fields, head and skip processors run

LimitInit ==
    /\ \E kind \in { "fields", "head", "skip" }, n \in 0..MaxLimit :
         /\ kind = "fields" => n = 0
         /\ lpp = lp_newPipeProcessor(kind, n)
    /\ sp = [byFields |-> << >>, funcs |-> << >>]
    /\ spp = [sp_newPipeProcessor(1) EXCEPT !.pc = "none"]
    /\ spp1 = [sp_newPipeProcessor(1) EXCEPT !.pc = "none"]
    /\ stopCh = "open"
    /\ writes = 0
    /\ rowsIn = [r \in Rows |-> 0]
    /\ sf = statsCount(<< >>)
    /\ sps = << >>
    /\ sfps = << >>
    /\ fed = << >>
    /\ built = {}
    /\ updates = 0

\* a worker calls writeBlock with a block of len rows
LimitWriteBlock ==
    /\ ~lpp.flushed
    /\ writes < MaxWrites
    /\ \E workerID \in LimitWorkers, len \in 0..MaxLimitRows :
         /\ lpp.workers[workerID].pc = "idle"
         /\ lpp' = IF lpp.kind = "fields" THEN fpp_writeBlock(lpp, workerID, len)
                   ELSE IF lpp.kind = "head" THEN hpp_writeBlockAdd(lpp, workerID, len)
                   ELSE skpp_writeBlockAdd(lpp, workerID, len)
    /\ writes' = writes + 1
    /\ UNCHANGED <<sp, spp, spp1, stopCh, rowsIn, funcVars>>

\* the writeBlock call of a worker goes on
LimitWriteBlockStep ==
    /\ \E workerID \in LimitWorkers :
         /\ lpp.workers[workerID].pc # "idle"
         /\ lpp' = lpp_writeBlockStep(lpp, workerID)
    /\ UNCHANGED <<statsVars, funcVars>>

\* flush() is called once the writers have returned
LimitFlush ==
    /\ ~lpp.flushed
    /\ \A workerID \in LimitWorkers : lpp.workers[workerID].pc = "idle"
    /\ lpp' = lpp_flush(lpp)
    /\ UNCHANGED <<statsVars, funcVars>>

LimitNext == LimitWriteBlock \/ LimitWriteBlockStep \/ LimitFlush

SpecLimit == LimitInit /\ [][LimitNext]_vars

\* ------------------------------------------- every pipe processor, one at a time

PipesInit == StatsInit \/ LimitInit

PipesNext == StatsNext \/ LimitNext

\* a query with one pipe: a stats, fields, head or skip pipe
SpecPipes == PipesInit /\ [][PipesNext]_vars

\* the calls of this kind in a sequence of calls
CallsOf(calls, op) == { i \in 1..Len(calls) : calls[i].op = op }

\* C12: flush() of a fields, stats, head or skip processor calls cancel()
\* and then ppBase.flush(), each once and in this order, on every path
C12_FlushCancelsThenFlushesOnce ==
    /\ spp.pc = "done"
       => /\ Len(spp.calls) >= 2
          /\ spp.calls[Len(spp.calls) - 1] = CancelCall
          /\ spp.calls[Len(spp.calls)] = FlushCall
          /\ Cardinality(CallsOf(spp.calls, "cancel")) = 1
          /\ Cardinality(CallsOf(spp.calls, "flush")) = 1
    /\ spp.pc # "done"
       => CallsOf(spp.calls, "cancel") \cup CallsOf(spp.calls, "flush") = {}
    /\ (lpp.kind # "none" /\ lpp.flushed)
       => /\ Len(lpp.calls) >= 2
          /\ lpp.calls[Len(lpp.calls) - 1] = LimitCall("cancel", "flush", 0, 0, 0, 0)
          /\ lpp.calls[Len(lpp.calls)] = LimitCall("flush", "flush", 0, 0, 0, 0)
          /\ Cardinality({ i \in 1..Len(lpp.calls) : lpp.calls[i].by = "flush" }) = 2
    /\ ~lpp.flushed => \A i \in 1..Len(lpp.calls) : lpp.calls[i].by # "flush"

\* flush of the stats processor returned from its emission loop with stopCh
\* closed, after it wrote a group and before it wrote them all
C12_Witness ==
    /\ spp.pc = "done"
    /\ stopCh = "closed"
    /\ ~spp.panicked
    /\ Len(BlocksWritten(spp.calls)) = 1
    /\ Cardinality(DOMAIN spp.shards[spp.base].m) = 2

\* C13: once stopCh is closed, no loop iteration of flush() that starts
\* afterwards writes a block downstream, and the first such iteration
\* returns from flush() without visiting the remaining groups
C13_NoBlockAfterStop ==
    [][stopCh = "closed"
       => /\ BlocksWritten(spp'.calls) = BlocksWritten(spp.calls)
          /\ spp.pc \in { "merge", "emit" } => spp'.pc = "done"]_vars

\* stopCh was closed before the first group was written: flush returned
\* with groups in its map and no block written
C13_Witness ==
    /\ spp.pc = "done"
    /\ stopCh = "closed"
    /\ ~spp.panicked
    /\ writes > 0
    /\ BlocksWritten(spp.calls) = << >>
    /\ DOMAIN spp.shards[spp.base].m # {}

\* the by-field value tuples of the rows written so far
GroupsIn == { GroupOf(r) : r \in { x \in Rows : rowsIn[x] > 0 } }

\* C14: with by-fields and stopCh never closed, flush() writes one block
\* for every by-field value tuple seen in the rows of all the shards, each
\* tuple once, and nothing when no row was written
C14_OneBlockPerGroup ==
    (spp.pc = "done" /\ stopCh = "open" /\ sp.byFields # << >>)
    => LET blocks == BlocksWritten(spp.calls) IN
       /\ ~spp.panicked
       /\ { GroupOfBlock(blocks[i]) : i \in 1..Len(blocks) } = GroupsIn
       /\ Len(blocks) = Cardinality(GroupsIn)

\* two workers wrote one row each, of the same group: one block, count 2
C14_Witness ==
    /\ spp.pc = "done"
    /\ stopCh = "open"
    /\ sp = [byFields |-> <<"a">>, funcs |-> <<CountStar>>]
    /\ Len(spp.shards) = 2
    /\ DOMAIN spp.shards[2].m # {}
    /\ Len(BlocksWritten(spp.calls)) = 1
    /\ StatsValue(BlocksWritten(spp.calls)[1], 1) = <<50>>

\* the group key of a tuple of by-field values
RECURSIVE GroupKey(_)
GroupKey(values) ==
    IF values = << >> THEN << >>
    ELSE GroupKey(SubSeq(values, 1, Len(values) - 1))
         \o MarshalBytes(<< >>, values[Len(values)])

EmptyGroupRows == { r \in Rows : rowsIn[r] > 0 /\ GroupOf(r) = <<Empty>> }

RECURSIVE RowsInSum(_)
RowsInSum(rs) ==
    IF rs = {} THEN 0
    ELSE LET r == CHOOSE x \in rs : TRUE IN rowsIn[r] + RowsInSum(rs \ {r})

\* C16: with by (a), a block without a column a and the same block with a
\* column a of empty values, written to a shard that can still be written
\* to, leave it with the same groups and the same statistics; the rows of
\* both kinds form one group, which flush() emits as one block with the
\* empty string as the value of a
C16_MissingIsEmpty ==
    sp.byFields = <<"a">>
    => /\ (spp.pc = "write" /\ writes < MaxWrites)
          => \A w \in 1..Len(spp.shards), n \in 0..MaxRows :
               \A columns \in { c \in BlockColumns(n) : getBlockColumnIndex(c, "a") = -1 } :
                  LET withA == columns
                                \o <<[Name |-> "a", Values |-> [i \in 1..n |-> Empty]]>>
                      s1 == shard_writeBlock(spp.shards[w], sp, ZeroTimestamps(n), columns)
                      s2 == shard_writeBlock(spp.shards[w], sp, ZeroTimestamps(n), withA)
                  IN
                  /\ DOMAIN s1.m = DOMAIN s2.m
                  /\ \A key \in DOMAIN s1.m : \A i \in 1..Len(sp.funcs) :
                        finalizeStats(s1.m[key].sfps[i]) = finalizeStats(s2.m[key].sfps[i])
       /\ (spp.pc = "done" /\ stopCh = "open" /\ EmptyGroupRows # {})
          => LET blocks == BlocksWritten(spp.calls) IN
             /\ Cardinality({ n \in 1..Len(blocks) : GroupOfBlock(blocks[n]) = <<Empty>> }) = 1
             /\ sp.funcs = <<CountStar>>
                => \A n \in 1..Len(blocks) :
                      GroupOfBlock(blocks[n]) = <<Empty>>
                      => StatsValue(blocks[n], 1) = FormatUint(RowsInSum(EmptyGroupRows))

\* worker 0 last wrote a block without column a, worker 1 a block whose
\* column a is empty; flush emitted their two rows as the one group a = ""
C16_Witness ==
    /\ spp.pc = "done"
    /\ stopCh = "open"
    /\ sp = [byFields |-> <<"a">>, funcs |-> <<CountStar>>]
    /\ Len(spp.shards) = 2
    /\ spp.shards[1].columnIdxs = <<-1>>
    /\ spp.shards[2].columnIdxs = <<0>>
    /\ DOMAIN spp.shards[2].m = { GroupKey(<<Empty>>) }
    /\ LET blocks == BlocksWritten(spp.calls) IN
       /\ Len(blocks) = 1
       /\ GroupOfBlock(blocks[1]) = <<Empty>>
       /\ StatsValue(blocks[1], 1) = <<50>>

\* ------------------------------------------- grouping by several fields

\* `stats by (a, b) count(*)`, `stats by (b, a) count(b)`, `stats count(*)`
GroupPipes ==
    { [byFields |-> <<"a", "b">>, funcs |-> <<CountStar>>],
      [byFields |-> <<"b", "a">>, funcs |-> <<CountB>>],
      [byFields |-> << >>, funcs |-> <<CountStar>>] }

GroupsInit ==
    /\ sp \in GroupPipes
    /\ \E workersCount \in WorkerCounts :
         /\ sp.byFields = <<"b", "a">> => workersCount = 1
         /\ spp = sp_newPipeProcessor(workersCount)
    /\ spp1 = sp_newPipeProcessor(1)
    /\ stopCh = "open"
    /\ writes = 0
    /\ rowsIn = [r \in Rows |-> 0]
    /\ sf = statsCount(<< >>)
    /\ sps = << >>
    /\ sfps = << >>
    /\ fed = << >>
    /\ built = {}
    /\ updates = 0
    /\ lpp = NoLimitProcessor

SpecGroups == GroupsInit /\ [][StatsNext]_vars

\* the keys of the groups of all the shards
GroupKeys == UNION { DOMAIN spp.shards[w].m : w \in 1..Len(spp.shards) }

\* the rows the shards folded into the group stored under key
RECURSIVE RowsFolded(_, _)
RowsFolded(key, w) ==
    IF w = 0 THEN 0
    ELSE RowsFolded(key, w - 1)
         + (IF key \in DOMAIN spp.shards[w].m
            THEN spp.shards[w].m[key].sfps[1].rowsCount ELSE 0)

\* C17: while blocks are written, the groups of the shards correspond one
\* to one to the by-field value tuples of the rows written: the keys are
\* the encodings of the tuples, there are as many keys as tuples (tuples
\* with equal concatenation but a different split included), and with
\* count(*) every group holds as many rows as were written with its tuple
C17_KeyInjective ==
    (spp.pc = "write" /\ sp.byFields # << >>)
    => /\ GroupKeys = { GroupKey(g) : g \in GroupsIn }
       /\ Cardinality(GroupKeys) = Cardinality(GroupsIn)
       /\ sp.funcs = <<CountStar>>
          => \A g \in GroupsIn : RowsFolded(GroupKey(g), Len(spp.shards))
                                    = RowsInSum(RowsOfGroup(g))

\* one shard holds the tuples ("\x01", "") and ("", "\x01") as two groups
C17_Witness ==
    /\ spp.pc = "write"
    /\ sp.byFields = <<"a", "b">>
    /\ Len(spp.shards) = 1
    /\ GroupsIn = { << <<1>>, Empty >>, << Empty, <<1>> >> }
    /\ DOMAIN spp.shards[1].m = { <<1, 1, 0>>, <<0, 1, 1>> }

\* two workers writing to `stats by (a) uniq(a, b), count(b)` or to
\* `stats count(b, *)`
WritersInit ==
    /\ StatsInit
    /\ Len(spp.shards) = 2
    /\ sp \in { [byFields |-> <<"a">>, funcs |-> <<UniqAB, CountB>>],
                [byFields |-> << >>, funcs |-> <<CountBStar>>] }

SpecWriters == WritersInit /\ [][StatsNext]_vars

C19_KeysDecode ==
    /\ \A w \in 1..Len(spp.shards) : \A key \in DOMAIN spp.shards[w].m :
          LET r == unmarshalValues(key, << >>) IN
          /\ ~r.err
          /\ Len(r.values) = Len(sp.byFields)
    /\ spp.panicked
       => /\ sp.byFields = << >>
          /\ Len(spp.shards) = 1
          /\ DOMAIN spp.shards[1].m = {}

\* flush() has decoded the keys of two groups of by (a, b), one of them
\* the key of two empty values, and has written a block for each
C19_Witness ==
    /\ spp.pc = "done"
    /\ ~spp.panicked
    /\ sp.byFields = <<"a", "b">>
    /\ Len(spp.shards) = 2
    /\ DOMAIN spp.shards[1].m = { <<0, 0>>, <<1, 1, 1, 1>> }
    /\ DOMAIN spp.shards[2].m = { <<1, 1, 1, 1>> }
    /\ Len(BlocksWritten(spp.calls)) = 2

\* C20: when a writeBlock call of a head processor takes the "Nothing to
\* write" branch, cancel() has been called before, by a writeBlock call or
\* by newPipeProcessor
C20_NothingToWriteAfterCancel ==
    lpp.kind = "head"
    => \A workerID \in LimitWorkers :
          lpp.workers[workerID].pc = "nothing"
          => \E i \in 1..Len(lpp.calls) : lpp.calls[i].op = "cancel"

\* ------------------------------------------- more about the processors

\* C21: a uniq state holds no key for an all-empty projection, so a state
\* that was fed one block of at least one row, in which every row has only
\* empty values for the fields of uniq, finalizes to "0"
C21_AllEmptyRowsGiveNoKey ==
    (sf.name = "uniq" /\ updates = 1)
    => /\ \A k \in 1..Len(sps) :
            (fed[k].rows > 0 /\ fed[k].hits = 0) => sp_finalizeStats(sps[k]) = <<48>>
       /\ \A k \in 1..Len(sfps) :
            (fed[k].rows > 0 /\ fed[k].hits = 0) => finalizeStats(sfps[k]).value = <<48>>

\* rows of a block given to a count processor as a whole and row by row
MaxCountRows == 2

\* updateStatsForRow of stats_count.go for every row of the block in turn
RECURSIVE scp_updateEveryRow(_, _, _)
scp_updateEveryRow(scp, br, rowIdx) ==
    IF rowIdx > Len(br.timestamps) THEN scp
    ELSE scp_updateEveryRow(scp_updateStatsForRow(scp, br, rowIdx).p, br, rowIdx + 1)

\* updateStatsForRow of pipes.go for every row of the block in turn
RECURSIVE sfcp_updateEveryRow(_, _, _, _)
sfcp_updateEveryRow(sfcp, timestamps, columns, rowIdx) ==
    IF rowIdx > Len(timestamps) THEN sfcp
    ELSE sfcp_updateEveryRow(sfcp_updateStatsForRow(sfcp, timestamps, columns, rowIdx),
                             timestamps, columns, rowIdx + 1)

\* the first count processor is given the block as a whole, the second
\* one row by row
UpdateCountRuns ==
    /\ updates < MaxWrites
    /\ Len(sps) = 2
    /\ \E n \in 0..MaxCountRows :
         \E br \in BlockResults(sf, n) :
           /\ sps' = [sps EXCEPT ![1] = scp_updateStatsForAllRows(@, br).p,
                                 ![2] = scp_updateEveryRow(@, br, 1)]
           /\ sfps' = [sfps EXCEPT
                         ![1] = sfcp_updateStatsForAllRows(@, br.timestamps, AsBlockColumns(br)),
                         ![2] = sfcp_updateEveryRow(@, br.timestamps, AsBlockColumns(br), 1)]
           /\ fed' = [fed EXCEPT ![1] = Fold(@, sf, br, 1..n)]
    /\ updates' = updates + 1
    /\ UNCHANGED <<sf, built, statsVars, limitVars>>

\* count processors over blocks of several rows
SpecCountRuns == FuncsInit(CountFuncs, 2, TRUE) /\ [][UpdateCountRuns]_vars

\* C22: for every count configuration, updateStatsForAllRows(block) adds
\* to the counter what updateStatsForRow adds over all the rows of the
\* block, in stats_count.go and in pipes.go
C22_CountAllRowsIsEveryRow ==
    (sf.name = "count" /\ Len(sps) = 2 /\ Len(sfps) = 2)
    => /\ sps[1].rowsCount = sps[2].rowsCount
       /\ sfps[1].rowsCount = sfps[2].rowsCount

\* count(a, b) took a block of two rows of which one has a non-empty field
C22_Witness ==
    /\ sf = statsCount(<<"a", "b">>)
    /\ updates = 1
    /\ fed[1].rows = 2
    /\ fed[1].hits = 1
    /\ sps[1].rowsCount = 1
    /\ sps[2].rowsCount = 1
    /\ sfps[1].rowsCount = 1
    /\ sfps[2].rowsCount = 1

\* the dictionaries of the dict columns given as a whole and row by row
RunDicts == { << <<1>> >>, <<Empty, <<1>>>>, << <<1>>, <<2>> >> }

\* the blocks of n rows whose one column a is a dict column
DictBlockResults(n) ==
    UNION { { [timestamps |-> ZeroTimestamps(n),
               cs |-> <<TypedColumn("a", valueTypeDict, d, ev)>>] :
                ev \in [1..n -> { <<i>> : i \in 0..(Len(d) - 1) }] } :
            d \in RunDicts }

\* the first uniq processor is given the dict block as a whole, the second
\* one row by row
UpdateDictRuns ==
    /\ updates < MaxWrites
    /\ Len(sps) = 2
    /\ \E n \in 1..MaxRunRows :
         \E br \in DictBlockResults(n) :
           /\ sps' = [sps EXCEPT ![1] = sup_updateStatsForAllRows(@, br).p,
                                 ![2] = sup_updateEveryRow(@, br, 1)]
           /\ fed' = [fed EXCEPT ![1] = Fold(@, sf, br, 1..n)]
    /\ updates' = updates + 1
    /\ UNCHANGED <<sf, sfps, built, statsVars, limitVars>>

\* uniq(a) over blocks whose column a is a dict column
SpecDictRuns == FuncsInit({ statsUniq(<<"a">>) }, 2, FALSE) /\ [][UpdateDictRuns]_vars

\* C23: for uniq over one dict column, updateStatsForAllRows(block) leaves
\* the key set that updateStatsForRow leaves over all the rows of the block
C23_DictAllRowsIsEveryRow ==
    (sf = statsUniq(<<"a">>) /\ Len(sps) = 2) => sps[1].m = sps[2].m

\* ---------------------------------- the state sizes the updates return

\* a processor of count or uniq, with the sum of the values its update
\* calls returned so far
SizesInit ==
    /\ sf \in { statsUniq(<<"*">>), statsUniq(<<"a">>), statsUniq(<<"a", "b">>),
                statsCount(<<"a">>), statsCount(<<"*">>), statsCount(<<"a", "b">>) }
    /\ sps = <<newStatsProcessor(sf)>>
    /\ sfps = << >>
    /\ fed = <<[size |-> 0]>>
    /\ built = {}
    /\ updates = 0
    /\ sp = [byFields |-> << >>, funcs |-> << >>]
    /\ spp = sp_newPipeProcessor(1)
    /\ spp1 = sp_newPipeProcessor(1)
    /\ stopCh = "open"
    /\ writes = 0
    /\ rowsIn = [r \in Rows |-> 0]
    /\ lpp = NoLimitProcessor

\* stateSizeIncrease := updateStatsForAllRows(br)
UpdateAllRowsSized ==
    /\ updates < MaxWrites
    /\ \E n \in 0..MaxRows :
         \E br \in BlockResults(sf, n) :
           LET r == sp_updateStatsForAllRows(sps[1], br) IN
           /\ sps' = <<r.p>>
           /\ fed' = <<[size |-> fed[1].size + r.n]>>
    /\ updates' = updates + 1
    /\ UNCHANGED <<sf, sfps, built, statsVars, limitVars>>

\* stateSizeIncrease := updateStatsForRow(br, i)
UpdateRowSized ==
    /\ updates < MaxWrites
    /\ \E n \in 1..MaxRows :
         \E br \in BlockResults(sf, n), i \in 1..n :
           LET r == sp_updateStatsForRow(sps[1], br, i) IN
           /\ sps' = <<r.p>>
           /\ fed' = <<[size |-> fed[1].size + r.n]>>
    /\ updates' = updates + 1
    /\ UNCHANGED <<sf, sfps, built, statsVars, limitVars>>

SizesNext == UpdateAllRowsSized \/ UpdateRowSized

SpecSizes == SizesInit /\ [][SizesNext]_vars

\* the sum of len(key) + size of a string header over the keys
RECURSIVE KeysSize(_)
KeysSize(keys) ==
    IF keys = {} THEN 0
    ELSE LET key == CHOOSE x \in keys : TRUE IN
         Len(key) + StringHeaderSize + KeysSize(keys \ {key})

\* C24: the values the update calls of a uniq state returned add up to the
\* sum of len(key) + string-header size over the keys of the state (each
\* call returns that sum over the keys it inserted, 0 when it inserted
\* none); every update call of a count state returns 0
C24_ReturnedSizeIsKeysSize ==
    (Len(sps) = 1 /\ Len(fed) = 1)
    => /\ sf.name = "uniq" => fed[1].size = KeysSize(sps[1].m)
       /\ sf.name = "count" => fed[1].size = 0

\* two updates of uniq(a, b) inserted a key of 3 bytes and one of 4 bytes
C24_Witness ==
    /\ sf = statsUniq(<<"a", "b">>)
    /\ Len(fed) = 1
    /\ updates = 2
    /\ sps[1].m = { <<1, 1, 0>>, <<1, 1, 1, 1>> }
    /\ fed[1].size = 3 + 4 + 2 * StringHeaderSize

\* ------------------------------------------ the groups while writing

\* the accumulator q holds what the accumulator p held
Holds(q, p) ==
    /\ q.kind = p.kind
    /\ q.sf = p.sf
    /\ p.kind = "count" => q.rowsCount >= p.rowsCount
    /\ p.kind = "uniq" => p.m \subseteq q.m

\* C25: while blocks are written, getStatsPipeGroup returns the shard as
\* it is for a key it holds, and a writeBlock call keeps every key of
\* every shard with its group: no accumulator is replaced by a new one or
\* loses what it held
C25_GroupsOnlyGrow ==
    [][(spp.pc = "write" /\ spp'.pc = "write")
       => \A w \in 1..Len(spp.shards) :
            LET m == spp.shards[w].m IN
            \A key \in DOMAIN m :
               /\ getStatsPipeGroup(spp.shards[w], sp.funcs, key) = spp.shards[w]
               /\ key \in DOMAIN spp'.shards[w].m
               /\ \A i \in 1..Len(m[key].sfps) :
                     Holds(spp'.shards[w].m[key].sfps[i], m[key].sfps[i])]_vars

\* a group of by (a) took two rows in two writeBlock calls of one worker
C25_Witness ==
    /\ spp.pc = "write"
    /\ writes = 2
    /\ sp.byFields = <<"a">>
    /\ \E key \in DOMAIN spp.shards[1].m :
          /\ spp.shards[1].m[key].sfps[2].rowsCount = 2
          /\ Cardinality(spp.shards[1].m[key].sfps[1].m) = 2

\* ------------------------------------------------- what goes downstream

\* C26: the stats processor calls nothing downstream while blocks are
\* written to it; the blocks it sends are sent by flush(), all of them
\* before flush() calls cancel() and ppBase.flush()
C26_BlocksOnlyInsideFlush ==
    /\ spp.pc = "write" => spp.calls = << >>
    /\ \A i \in 1..Len(spp.calls) : \A j \in 1..Len(spp.calls) :
          (i < j /\ spp.calls[i].op \in { "cancel", "flush" })
          => spp.calls[j].op # "writeBlock"

\* flush() sent two blocks and then called cancel() and ppBase.flush()
C26_Witness ==
    /\ spp.pc = "done"
    /\ writes = 2
    /\ Len(spp.calls) = 4
    /\ spp.calls[1].op = "writeBlock"
    /\ spp.calls[2].op = "writeBlock"
    /\ spp.calls[3] = CancelCall
    /\ spp.calls[4] = FlushCall

\* --------------------------------------------- rows through head and skip

\* the rows of the blocks sent to ppBase
RECURSIVE RowsForwarded(_)
RowsForwarded(calls) ==
    IF calls = << >> THEN 0
    ELSE (IF Head(calls).op = "writeBlock" THEN Head(calls).rows ELSE 0)
         + RowsForwarded(Tail(calls))

\* no writeBlock call is under way
AllReturned == \A workerID \in LimitWorkers : lpp.workers[workerID].pc \in { "idle" }

Min(a, b) == IF a <= b THEN a ELSE b

Max(a, b) == IF a >= b THEN a ELSE b

\* C27: a head processor never forwards more than n rows; once the
\* writeBlock calls have returned it has forwarded min(n, rows written),
\* and every block it forwards is a prefix of the block it was given
C27_HeadForwardsMin ==
    lpp.kind = "head"
    => /\ RowsForwarded(lpp.calls) <= lpp.n
       /\ AllReturned => RowsForwarded(lpp.calls) = Min(lpp.n, lpp.rowsWritten)
       /\ \A i \in 1..Len(lpp.calls) :
             lpp.calls[i].op = "writeBlock"
             => lpp.calls[i].from = 0 /\ lpp.calls[i].rows <= lpp.calls[i].len

\* `head 2`: worker 0 added its row first and forwarded it last; worker 1
\* in between forwarded the first row of its block of two
C27_Witness ==
    /\ lpp.kind = "head"
    /\ lpp.n = 2
    /\ lpp.rowsWritten = 3
    /\ AllReturned
    /\ Len(lpp.calls) = 3
    /\ lpp.calls[1] = LimitCall("writeBlock", "writeBlock", 1, 0, 1, 2)
    /\ lpp.calls[2] = LimitCall("cancel", "writeBlock", 1, 0, 0, 0)
    /\ lpp.calls[3] = LimitCall("writeBlock", "writeBlock", 0, 0, 1, 1)

\* the forwarded blocks that lost leading rows
CutBlocks == { i \in 1..Len(lpp.calls) : lpp.calls[i].op = "writeBlock" /\ lpp.calls[i].from > 0 }

\* C28: once the writeBlock calls have returned, a skip processor has
\* forwarded max(0, rows written - n) rows; every block it forwards is a
\* suffix of the block it was given, and at most one block, the one that
\* crosses the offset, lost rows: fewer than it had and no more than n
C28_SkipForwardsRest ==
    lpp.kind = "skip"
    => /\ AllReturned => RowsForwarded(lpp.calls) = Max(0, lpp.rowsSkipped - lpp.n)
       /\ RowsForwarded(lpp.calls) <= Max(0, lpp.rowsSkipped - lpp.n)
       /\ \A i \in 1..Len(lpp.calls) :
             lpp.calls[i].op = "writeBlock"
             => lpp.calls[i].from + lpp.calls[i].rows = lpp.calls[i].len
       /\ Cardinality(CutBlocks) <= 1
       /\ \A i \in CutBlocks : lpp.calls[i].from <= lpp.n /\ lpp.calls[i].rows > 0

\* `skip 1`: worker 0 added its block of two first and forwarded its second
\* row last; worker 1 in between forwarded its block of one row
C28_Witness ==
    /\ lpp.kind = "skip"
    /\ lpp.n = 1
    /\ lpp.rowsSkipped = 3
    /\ AllReturned
    /\ lpp.calls = <<LimitCall("writeBlock", "writeBlock", 1, 0, 1, 1),
                     LimitCall("writeBlock", "writeBlock", 0, 1, 1, 2)>>

\* ------------------------------------------ the accumulators of a group

\* accs has one accumulator per function, the i-th made by funcs[i]
MatchesFuncs(accs, funcs) ==
    /\ Len(accs) = Len(funcs)
    /\ \A i \in 1..Len(funcs) : accs[i].kind = funcs[i].name /\ accs[i].sf = funcs[i]

\* C29: every group of every shard holds len(funcs) accumulators, the i-th
\* of the variant of funcs[i]; so each pair the merge loop of flush() hands
\* to mergeState, spgBase.sfps[i] and spg.sfps[i], is a pair of one variant
C29_GroupsMatchFuncs ==
    /\ \A w \in 1..Len(spp.shards) : \A key \in DOMAIN spp.shards[w].m :
          MatchesFuncs(spp.shards[w].m[key].sfps, sp.funcs)
    /\ (spp.pc = "merge" /\ spp.si <= Len(spp.shards))
       => \A key \in spp.todo \cap DOMAIN spp.shards[spp.base].m :
             LET spgBase == spp.shards[spp.base].m[key]
                 spg == spp.shards[spp.si].m[key]
             IN /\ Len(spg.sfps) = Len(spgBase.sfps)
                /\ \A i \in 1..Len(spgBase.sfps) : spgBase.sfps[i].kind = spg.sfps[i].kind

\* `stats by (a) uniq(a, b), count(b)`: the merge loop is about to merge a
\* group that two shards hold
C29_Witness ==
    /\ sp.funcs = <<UniqAB, CountB>>
    /\ spp.pc = "merge"
    /\ spp.si <= Len(spp.shards)
    /\ \E key \in spp.todo \cap DOMAIN spp.shards[spp.base].m :
          /\ spp.shards[spp.base].m[key].sfps[2].rowsCount > 0
          /\ spp.shards[spp.si].m[key].sfps[1].m # {}

\* ------------------------------------------- statsPipe.neededFields()

\* the most functions of a pipe whose needed fields are computed
MaxNeededFuncs == 2

\* statsFuncCount.neededFields, statsFuncUniq.neededFields
sf_neededFields(f) ==
    IF f.name = "count" THEN getFieldsIgnoreStar(f.fields) ELSE f.fields

RECURSIVE updateNeededFields_appendAll(_, _)
\* a closure that appends every field, seen before or not
updateNeededFields_appendAll(st, fields) ==
    IF fields = << >> THEN st
    ELSE updateNeededFields_appendAll(
             [neededFields |-> Append(st.neededFields, Head(fields)),
              m |-> st.m \cup {Head(fields)}],
             Tail(fields))

RECURSIVE updateNeededFields(_, _)
\* the closure updateNeededFields of statsPipe.neededFields: neededFields
\* and m after the call
updateNeededFields(st, fields) ==
    IF fields = << >> THEN st
    ELSE updateNeededFields(
             IF Head(fields) \notin st.m
             THEN [neededFields |-> Append(st.neededFields, Head(fields)),
                   m |-> st.m \cup {Head(fields)}]
             ELSE st,
             Tail(fields))

\* the field lists of by (...) and of the functions
NeededFieldLists ==
    { <<"a">>, <<"b">>, <<"*">>, <<"a", "b">>, <<"b", "a">>, <<"b", "b">>,
      <<"b", "*">>, <<"*", "a">> }

\* count(...) and uniq(...) over these lists
NeededFuncs ==
    { [name |-> nm, fields |-> fs, resultName |-> "r"] :
        nm \in { "count", "uniq" }, fs \in NeededFieldLists }

\* the pipes whose needed fields are computed
NeededPipes ==
    { [byFields |-> by, funcs |-> fs] :
        by \in { << >>, <<"a">>, <<"b", "a">>, <<"a", "a">> },
        fs \in UNION { [1..n -> NeededFuncs] : n \in 1..MaxNeededFuncs } }

\* `var neededFields []string; m := make(map[string]struct{})`
NeededInit ==
    /\ sp \in NeededPipes
    /\ fed = <<[neededFields |-> << >>, m |-> {}]>>
    /\ updates = 0
    /\ sf = statsCount(<<"*">>)
    /\ sps = << >>
    /\ sfps = << >>
    /\ built = {}
    /\ spp = sp_newPipeProcessor(1)
    /\ spp1 = sp_newPipeProcessor(1)
    /\ stopCh = "open"
    /\ writes = 0
    /\ rowsIn = [r \in Rows |-> 0]
    /\ lpp = NoLimitProcessor

\* updateNeededFields(sp.byFields)
NeededByFields ==
    /\ updates = 0
    /\ fed' = <<updateNeededFields(fed[1], sp.byFields)>>
    /\ updates' = 1
    /\ UNCHANGED <<sf, sps, sfps, built, statsVars, limitVars>>

\* one turn of `for _, f := range sp.funcs`
NeededFuncFields ==
    /\ updates \in 1..Len(sp.funcs)
    /\ fed' = <<updateNeededFields(fed[1], sf_neededFields(sp.funcs[updates]))>>
    /\ updates' = updates + 1
    /\ UNCHANGED <<sf, sps, sfps, built, statsVars, limitVars>>

NeededNext == NeededByFields \/ NeededFuncFields

SpecNeeded == NeededInit /\ [][NeededNext]_vars

\* the fields a function contributes: count its fields other than `*`,
\* uniq its fields as written
Contribution(f) ==
    IF f.name = "count" THEN SelectSeq(f.fields, LAMBDA x : x # "*") ELSE f.fields

\* byFields followed by the contributions of the functions in order
RECURSIVE Contributions(_)
Contributions(funcs) ==
    IF funcs = << >> THEN << >>
    ELSE Contribution(Head(funcs)) \o Contributions(Tail(funcs))

\* the place of the first occurrence of x in s
FirstAt(s, x) == CHOOSE i \in 1..Len(s) : s[i] = x /\ \A j \in 1..(i - 1) : s[j] # x

\* r lists every element of s once, in the order of first occurrence in s
IsFirstOccurrences(r, s) ==
    /\ { r[i] : i \in 1..Len(r) } = { s[i] : i \in 1..Len(s) }
    /\ \A i, j \in 1..Len(r) : i < j => FirstAt(s, r[i]) < FirstAt(s, r[j])

\* C30: the list neededFields() returns holds every field of byFields and
\* of the functions once, in the order of first occurrence, where count
\* gives its fields without `*` and uniq gives its fields as written
C30_NeededFieldsOnceInOrder ==
    updates = Len(sp.funcs) + 1
    => IsFirstOccurrences(fed[1].neededFields, sp.byFields \o Contributions(sp.funcs))

\* `stats by (b, a) count(b, *), uniq(*, a)` needs b, a, *
C30_Witness ==
    /\ sp.byFields = <<"b", "a">>
    /\ Len(sp.funcs) = 2
    /\ sp.funcs[1].name = "count" /\ sp.funcs[1].fields = <<"b", "*">>
    /\ sp.funcs[2].name = "uniq" /\ sp.funcs[2].fields = <<"*", "a">>
    /\ updates = 3
    /\ fed = <<[neededFields |-> <<"b", "a", "*">>, m |-> { "a", "b", "*" }]>>

====
